---- MODULE Spec2Model ----
(***************************************************************************)
(* The encode queue manager of video-blapper                               *)
(* (server/src/encodeManager.ts, class EncodeManager, lines 212-388).      *)
(*                                                                         *)
(* Node runs every handler to completion on one thread, so each action     *)
(* below is one handler or one continuation: the addJob call up to its     *)
(* await, the addJob continuation after fs.stat, cancelJob, the stderr     *)
(* 'data' handler, the size sampler's timer callback up to its await, the  *)
(* sampler's continuation after fs.stat, and the 'close' handler.          *)
(* processQueue has no await, so it runs inside the handler that calls it. *)
(*                                                                         *)
(* Job objects live in a heap (jobs); queue, currentJob and the closures   *)
(* of the handlers hold references (indices into the heap).  A reference   *)
(* is never the job's id: the id is Date.now() at admission.               *)
(***************************************************************************)
EXTENDS Integers, Sequences, FiniteSets

\* ---------------------------------------------------------------- bounds
MaxJobs == 3        \* addJob calls made in a run, rejected ones included
MaxClock == 1       \* Date.now() takes the values 0..MaxClock
MaxInFlight == 2    \* addJob calls awaiting fs.stat at one time
MaxData == 1        \* stderr chunks and size-sampler timer callbacks
                    \* delivered in a run, together
MaxDetailJobs == 2  \* submit requests accepted in a run of DetailSpec
MaxChunks == 2       \* stderr chunks delivered in a run of DetailSpec
MaxRequests == 3     \* inspection requests the page sends in a run
MaxAdds == 1         \* add-to-queue requests of the page awaiting an answer

\* ------------------------------------------------------ values and inputs
Null == 0                       \* null (currentJob, currentProcess)
Undefined == -1                 \* an optional numeric field that is not set
NoMarker == <<>>                \* String.match found nothing: null

\* this.currentJob.startTime = Date.now(): the manager never reads it back,
\* so only the fact that it is set is kept.
Stamp == 1

\* What the caller put in jobDetails.audioStreams: an array has forEach,
\* anything else truthy the route lets through does not.
AudioStreamInputs == {"array", "scalar"}

\* Exit codes delivered to the 'close' handler.  The handler only tests
\* code === 0, so one non-zero code stands for all of them (and for null,
\* the code of a process ended by a signal).
ExitCodes == {0, 1}

\* HH:MM:SS.ff markers, as the four groups of the regular expression.
DurationMarkers == {<<1, 0, 0, 0>>}
TimeMarkers == {<<0, 30, 0, 0>>}
Chunks == [duration : DurationMarkers \cup {NoMarker},
           time : TimeMarkers \cup {NoMarker}]

\* The chunks of DetailSpec: a duration of less than a second (totalDuration
\* stays 0), elapsed times that go back and that pass the total.  00:08:42 of
\* one hour is 14.5 percent.
DetailDurationMarkers == {<<1, 0, 0, 0>>, <<0, 0, 0, 50>>}
DetailTimeMarkers == {<<0, 30, 0, 0>>, <<0, 8, 42, 0>>, <<2, 0, 0, 0>>}
DetailChunks == [duration : DetailDurationMarkers \cup {NoMarker},
                 time : DetailTimeMarkers \cup {NoMarker}]

\* What a submit request carries.  filePath: absent, or the path of a file.
\* audioStreams: absent, [], a non-empty array, or a string.
RequestPaths == {"missing", "a.mkv"}
RequestAudio == {"missing", "empty", "array", "scalar"}

\* JavaScript truthiness of a request field: only the absent one is falsy
\* (an empty array is an object, and objects are truthy).
Truthy(v) == v # "missing"

\* if (!filePath || !audioStreams) return res.status(400)
RouteAccepts(filePath, audioStreams) ==
  ~(~Truthy(filePath) \/ ~Truthy(audioStreams))

\* The audioStreams values that reach addJob.
AcceptedAudio == {a \in RequestAudio : \E f \in RequestPaths : RouteAccepts(f, a)}

\* Sizes fs.stat reports for the output file.
FileSizes == {7}

\* Ids a caller may pass to cancelJob: every Date.now() value and one that
\* is never assigned.
UnknownId == MaxClock + 1
CancelIds == 0..UnknownId

Range(f) == {f[x] : x \in DOMAIN f}
Min(a, b) == IF a < b THEN a ELSE b

\* Math.round of the non-negative rational n/d: the nearest integer, halves up.
Round(n, d) == (2 * n + d) \div (2 * d)

\* ------------------------------------------------------ double arithmetic

\* JavaScript numbers are IEEE 754 doubles.  A non-negative one is written
\* [m, e] for m * 2^e, m in 53 binary digits, most significant first, the
\* first of them 1; zero has no digits.  Whole numbers of any length are
\* written in binary digits the same way.
MantissaBits == 53
FractionBits == 80
Zero == [m |-> <<>>, e |-> 0]
DoubleInfinity == [m |-> <<>>, e |-> 1]

Zeros(k) == [i \in 1..k |-> 0]
PadTo(b, n) == Zeros(n - Len(b)) \o b

\* b without its leading zeros
Strip(b) ==
  LET first == CHOOSE i \in 1..(Len(b) + 1) :
                 /\ i = Len(b) + 1 \/ b[i] = 1
                 /\ \A j \in 1..(i - 1) : b[j] = 0
  IN SubSeq(b, first, Len(b))

RECURSIVE TwoToThe(_)
TwoToThe(k) == IF k = 0 THEN 1 ELSE 2 * TwoToThe(k - 1)

\* The binary digits of n < 2^30
BitsOf(n) ==
  LET len == CHOOSE k \in 0..30 :
               n < TwoToThe(k) /\ (k = 0 \/ n >= TwoToThe(k - 1))
  IN [i \in 1..len |-> (n \div TwoToThe(len - i)) % 2]

\* x + y: digit i takes a carry when some lower digit makes one (both 1) and
\* every digit between passes it on (not both 0).
BigAdd(x, y) ==
  LET n == IF Len(x) > Len(y) THEN Len(x) ELSE Len(y)
      px == PadTo(x, n)
      py == PadTo(y, n)
      carry(i) == IF \E j \in (i + 1)..n :
                       /\ px[j] + py[j] = 2
                       /\ \A k \in (i + 1)..(j - 1) : px[k] + py[k] = 1
                  THEN 1 ELSE 0
  IN IF x = <<>> THEN y
     ELSE IF y = <<>> THEN x
     ELSE Strip(<<carry(0)>>
                  \o [i \in 1..n |-> (px[i] + py[i] + carry(i)) % 2])

\* x - y for x >= y: digit i lends when some lower digit borrows (0 - 1) and
\* every digit between passes the borrow on (equal digits).
BigSub(x, y) ==
  LET n == Len(x)
      py == PadTo(y, n)
      borrow(i) == IF \E j \in (i + 1)..n :
                        /\ x[j] < py[j]
                        /\ \A k \in (i + 1)..(j - 1) : x[k] = py[k]
                   THEN 1 ELSE 0
  IN Strip([i \in 1..n |-> (x[i] - py[i] - borrow(i) + 2) % 2])

\* x < y for numbers without leading zeros
BigLess(x, y) ==
  \/ Len(x) < Len(y)
  \/ /\ Len(x) = Len(y)
     /\ \E i \in 1..Len(x) :
          x[i] < y[i] /\ \A j \in 1..(i - 1) : x[j] = y[j]

\* x times the number made of the digits lo..hi of y
RECURSIVE MulRange(_, _, _, _)
MulRange(x, y, lo, hi) ==
  IF lo > hi THEN <<>>
  ELSE IF lo = hi THEN (IF y[lo] = 1 THEN x ELSE <<>>)
  ELSE LET mid == (lo + hi) \div 2
           upper == MulRange(x, y, lo, mid)
       IN BigAdd(IF upper = <<>> THEN <<>> ELSE upper \o Zeros(hi - mid),
                 MulRange(x, y, mid + 1, hi))

\* The double nearest to bits * 2^e, a tie going to the even one.
RoundToDouble(bits, e) ==
  LET b == Strip(bits)
      n == Len(b)
  IN IF n = 0 THEN Zero
     ELSE IF n <= MantissaBits
          THEN [m |-> b \o Zeros(MantissaBits - n),
                e |-> e - (MantissaBits - n)]
     ELSE LET top == SubSeq(b, 1, MantissaBits)
              rest == SubSeq(b, MantissaBits + 1, n)
              up == /\ rest[1] = 1
                    /\ \/ top[MantissaBits] = 1
                       \/ \E i \in 2..Len(rest) : rest[i] = 1
              r == IF up THEN BigAdd(top, <<1>>) ELSE top
          IN IF Len(r) > MantissaBits
             THEN [m |-> SubSeq(r, 1, MantissaBits),
                   e |-> e + (n - MantissaBits) + 1]
             ELSE [m |-> r, e |-> e + (n - MantissaBits)]

\* 2^k modulo d, for d < 2^15
RECURSIVE TwoToTheMod(_, _)
TwoToTheMod(k, d) ==
  IF k = 0 THEN 1 % d
  ELSE LET half == TwoToTheMod(k \div 2, d)
       IN (half * half * (IF k % 2 = 1 THEN 2 ELSE 1)) % d

\* What is left of r < d after k binary digits of r / d after the point, and
\* those digits.
RemainderAfter(r, d, k) == (r * TwoToTheMod(k, d)) % d
DigitsAfterPoint(r, d, k) ==
  [i \in 1..k |-> (2 * RemainderAfter(r, d, i - 1)) \div d]

\* a / b for whole numbers a and b > 0, which is also the value of a decimal
\* literal such as 1.85 (185 / 100): the quotient to FractionBits digits and
\* one more digit that tells whether anything is left.
DoubleDiv(a, b) ==
  LET left == IF RemainderAfter(a % b, b, FractionBits) = 0 THEN 0 ELSE 1
  IN RoundToDouble(BitsOf(a \div b)
                     \o DigitsAfterPoint(a % b, b, FractionBits)
                     \o <<left>>,
                   0 - (FractionBits + 1))

\* x * y
DoubleMul(x, y) ==
  RoundToDouble(MulRange(x.m, y.m, 1, Len(y.m)), x.e + y.e)

\* The two numbers in digits of the same weight.
Aligned(x, y) ==
  LET e == IF x.e < y.e THEN x.e ELSE y.e
  IN [x |-> Strip(x.m \o Zeros(x.e - e)), y |-> Strip(y.m \o Zeros(y.e - e)),
      e |-> e]

\* Math.abs(x - y)
DoubleAbsDiff(x, y) ==
  LET a == Aligned(x, y)
  IN IF BigLess(a.x, a.y) THEN RoundToDouble(BigSub(a.y, a.x), a.e)
     ELSE RoundToDouble(BigSub(a.x, a.y), a.e)

\* x < y
DoubleLess(x, y) ==
  IF y = DoubleInfinity THEN x # DoubleInfinity
  ELSE IF x = DoubleInfinity THEN FALSE
  ELSE LET a == Aligned(x, y) IN BigLess(a.x, a.y)

VARIABLES
  jobs,            \* the heap of EncodeJob objects, in order of admission
  queue,           \* this.queue: references, head first
  currentJob,      \* this.currentJob: a reference or Null
  currentProcess,  \* this.currentProcess: the process of a job, or Null
  procs,           \* spawned processes whose 'close' is not yet handled,
                   \* keyed by the job their handlers close over
  statInFlight,    \* sampler callbacks awaiting fs.stat(outputPath)
  killed,          \* processes tree-kill was asked to kill
  adding,          \* the number of addJob calls awaiting fs.stat
  clock,           \* Date.now()
  emits,           \* queueUpdate events emitted by the last handler
  cancelAsked,     \* history: jobs that were the current job when cancelJob
                   \* was called with their id
  started,         \* history: references in the order processQueue took them
  delivered,       \* history: stderr chunks and sampler callbacks so far
  statFailed,      \* addJob calls whose fs.stat was rejected: 0, or 1 when
                   \* the process has ended on it
  spawnFailed,     \* the process has ended on the 'error' event of a
                   \* process that could not be spawned
  published,       \* the queueUpdate snapshots emitted by the last handler,
                   \* as they were when they were emitted
  cropRun,         \* a detectCrop call: the samples taken and its outcome
  plan,            \* a correction plan: the probe results and what the
                   \* deriver made of them
  page,            \* the client: the location of the router, what the
                   \* last render has shown of it, the state of the detail
                   \* page and the requests in flight; or a video stream
                   \* and the guess made for it
  request,         \* one inspection request in the route: the processes it
                   \* has spawned and its response
  files,           \* the jobs whose output file is on the disk
  held             \* a snapshot that an observer got from getQueueState
                   \* and has kept

mgrVars == <<jobs, queue, currentJob, currentProcess, procs, statInFlight,
             killed, adding, clock, emits, cancelAsked, started, delivered,
             statFailed, spawnFailed, published>>
inspVars == <<cropRun, plan, page, request, files, held>>
vars == <<mgrVars, inspVars>>

Refs == 1..Len(jobs)
Live == DOMAIN procs

Statuses == {"pending", "processing", "completed", "failed", "cancelled"}

\* The shape of the state: the EncodeJob fields and the manager's fields.
TypeOK ==
  /\ \A j \in Refs :
       /\ jobs[j].id \in 0..MaxClock
       /\ jobs[j].audioStreams \in RequestAudio
       /\ jobs[j].status \in Statuses
       /\ jobs[j].progress \in 0..100
       /\ jobs[j].startTime \in {Undefined, Stamp}
       /\ jobs[j].currentFileSize \in {Undefined} \cup FileSizes
  /\ \A k \in 1..Len(queue) : queue[k] \in Refs
  /\ currentJob \in {Null} \cup Refs
  /\ currentProcess \in {Null} \cup Refs
  /\ Live \subseteq Refs
  /\ \A p \in Live : procs[p].totalDuration \in Nat
  /\ statInFlight \subseteq Refs
  /\ killed \subseteq Refs
  /\ cancelAsked \subseteq Refs
  /\ clock \in 0..MaxClock
  /\ adding \in 0..MaxInFlight
  /\ emits \in 0..2
  /\ delivered \in 0..(IF MaxData < MaxChunks THEN MaxChunks ELSE MaxData)
  /\ statFailed \in 0..1
  /\ spawnFailed \in BOOLEAN
  /\ Len(published) = emits
  /\ \A k \in 1..Len(published) :
       /\ published[k].currentJob \in {Null} \cup 1..Len(published[k].jobs)
       /\ \A i \in 1..Len(published[k].queue) :
            published[k].queue[i] \in 1..Len(published[k].jobs)

\* The process has ended: node exits with code 1 on an unhandled rejection
\* and on an 'error' event that nothing listens to, and no callback runs any
\* more.
ServerEnded == statFailed > 0 \/ spawnFailed

\* The manager's fields and what processQueue touches, as one value, so that
\* processQueue can run inside addJob and inside the 'close' handler.
St == [jobs |-> jobs, queue |-> queue, currentJob |-> currentJob,
       currentProcess |-> currentProcess, procs |-> procs,
       emits |-> 0, started |-> started, published |-> <<>>]

Install(s) ==
  /\ jobs' = s.jobs
  /\ queue' = s.queue
  /\ currentJob' = s.currentJob
  /\ currentProcess' = s.currentProcess
  /\ procs' = s.procs
  /\ emits' = s.emits
  /\ started' = s.started
  /\ published' = s.published

\* What a listener gets from getQueueState() at the time of the emit: the
\* pending list, the current job and the jobs they refer to.
Snapshot(s) == [queue |-> s.queue, currentJob |-> s.currentJob, jobs |-> s.jobs]

\* this.emit('queueUpdate', this.getQueueState())
Emit(s) == [s EXCEPT !.emits = @ + 1, !.published = Append(@, Snapshot(s))]

\* getQueueState: the pending list and the current job, by reference.
getQueueState == [queue |-> queue, currentJob |-> currentJob]

\* ------------------------------------------------------------ processQueue

\* if (this.currentJob || this.queue.length === 0) return;
SchedulerBlockedNoSlotCheck(s) == s.queue = <<>>
SchedulerBlocked(s) == s.currentJob # Null \/ s.queue = <<>>

\* this.queue.shift(): the index of the element taken.
TakeLast(q) == Len(q)
TakeIndex(q) == 1

LeaveAt(q, i) == q
RemoveAt(q, i) == SubSeq(q, 1, i - 1) \o SubSeq(q, i + 1, Len(q))

\* job.outputPath = path.join(ENCODES_OUTPUT_PATH, outputFileName)
\* job.outputFilename, when it is there and not blank, names the file;
\* otherwise the input's base name does.
OutputPathOf(job) ==
  IF job.outputFilename # ""
  THEN <<"encodes", job.outputFilename, ".mp4">>
  ELSE <<"encodes", job.filePath, "-encoded.mp4">>

\* The try body up to spawn: job.audioStreams.forEach throws a TypeError when
\* audioStreams is no array; the catch block is empty.
LaunchThrows(job) == job.audioStreams \notin {"array", "empty"}

NewProcess == [totalDuration |-> 0, interval |-> TRUE]

processQueue(s) ==
  IF SchedulerBlocked(s) THEN s
  ELSE
    LET i == TakeIndex(s.queue)
        j == s.queue[i]
        s1 == [s EXCEPT !.queue = RemoveAt(@, i),
                        !.currentJob = j,
                        !.jobs[j].status = "processing",
                        !.jobs[j].startTime = Stamp,
                        !.started = Append(@, j)]
        s2 == Emit(s1)
        s3 == [s2 EXCEPT !.jobs[j].outputPath = OutputPathOf(s.jobs[j])]
    IN IF LaunchThrows(s.jobs[j]) THEN s3
       ELSE [s3 EXCEPT !.currentProcess = j,
                       !.procs = [p \in DOMAIN @ \cup {j} |->
                                    IF p = j THEN NewProcess ELSE @[p]]]

\* ------------------------------------------------------------------ addJob

\* { ...jobDetails, id, status, progress, originalFileSize }: the request's
\* fields are copied as they came; outputFilename "" is one that is absent.
NewJob(audio, now) ==
  [id |-> now, filePath |-> "a.mkv", audioStreams |-> audio,
   videoCodec |-> "libx265", videoPreset |-> "medium", videoCrf |-> 22,
   audioCodec |-> "aac", audioBitrate |-> "192k",
   aspectRatio |-> "16:9", crop |-> "crop=720:576:0:0",
   deinterlace |-> TRUE, outputFilename |-> "",
   status |-> "pending", progress |-> 0, error |-> <<>>,
   outputPath |-> <<>>, startTime |-> Undefined,
   originalFileSize |-> 5, currentFileSize |-> Undefined]

\* addJob up to `await fs.stat(jobDetails.filePath)`.  Nothing of the manager
\* is read or written before the await, and the rest of jobDetails is read
\* only after it, so the call is counted here and its input is drawn where the
\* continuation runs.
AddJobCall ==
  /\ ~ServerEnded
  /\ Len(jobs) + adding < MaxJobs
  /\ adding < MaxInFlight
  /\ adding' = adding + 1
  /\ emits' = 0
  /\ published' = <<>>
  /\ UNCHANGED <<jobs, queue, currentJob, currentProcess, procs, statInFlight,
                 killed, clock, started, cancelAsked, delivered,
                 statFailed, spawnFailed>>
  /\ UNCHANGED inspVars

\* router.post('/encode'): a 400 and nothing else, or the call of addJob; the
\* route does not await it.
PostEncode(filePath, audioStreams) ==
  /\ ~ServerEnded
  /\ IF RouteAccepts(filePath, audioStreams)
     THEN Len(jobs) + adding < MaxDetailJobs /\ AddJobCall
     ELSE UNCHANGED vars

\* fs.stat resolved: the rest of addJob
AddJobAdmitAtFront(audio) ==
  /\ ~ServerEnded
  /\ adding > 0
  /\ adding' = adding - 1
  /\ LET s1 == [St EXCEPT !.jobs = Append(@, NewJob(audio, clock)),
                          !.queue = <<Len(jobs) + 1>> \o @]
     IN Install(processQueue(Emit(s1)))
  /\ UNCHANGED <<statInFlight, killed, clock, cancelAsked, delivered,
                 statFailed, spawnFailed>>
  /\ UNCHANGED inspVars
AddJobAdmit(audio) ==
  /\ ~ServerEnded
  /\ adding > 0
  /\ adding' = adding - 1
  /\ LET s1 == [St EXCEPT !.jobs = Append(@, NewJob(audio, clock)),
                          !.queue = Append(@, Len(jobs) + 1)]
     IN Install(processQueue(Emit(s1)))
  /\ UNCHANGED <<statInFlight, killed, clock, cancelAsked, delivered,
                 statFailed, spawnFailed>>
  /\ UNCHANGED inspVars

\* fs.stat rejected: addJob's promise rejects before anything is touched.
\* The route that called addJob neither awaits nor catches the promise and the
\* server sets no handler for unhandled rejections, so node ends the process:
\* what the manager held stays as it was at that moment, and nothing runs on.
AddJobStatFailsButAdmits ==
  /\ ~ServerEnded
  /\ adding > 0
  /\ adding' = adding - 1
  /\ statFailed' = statFailed + 1
  /\ UNCHANGED spawnFailed
  /\ LET s1 == [St EXCEPT !.jobs = Append(@, NewJob("array", clock)),
                          !.queue = Append(@, Len(jobs) + 1)]
     IN Install(processQueue(Emit(s1)))
  /\ UNCHANGED <<statInFlight, killed, clock, cancelAsked, delivered>>
  /\ UNCHANGED inspVars
AddJobStatFails ==
  /\ ~ServerEnded
  /\ adding > 0
  /\ adding' = adding - 1
  /\ statFailed' = statFailed + 1
  /\ UNCHANGED spawnFailed
  /\ emits' = 0
  /\ published' = <<>>
  /\ UNCHANGED <<jobs, queue, currentJob, currentProcess, procs,
                 statInFlight, killed, clock, started, cancelAsked, delivered>>
  /\ UNCHANGED inspVars

\* --------------------------------------------------------------- cancelJob

\* this.currentJob && this.currentJob.id === jobId && this.currentProcess
CancelHitsCurrentAnyId(s, jobId) ==
  s.currentJob # Null /\ s.currentProcess # Null
CancelHitsCurrent(s, jobId) ==
  /\ s.currentJob # Null
  /\ s.jobs[s.currentJob].id = jobId
  /\ s.currentProcess # Null

\* this.queue.filter(job => job.id !== jobId)
RECURSIVE FilterQueue(_, _, _)
FilterQueueKeepsAll(q, js, jobId) == q
FilterQueue(q, js, jobId) ==
  IF q = <<>> THEN <<>>
  ELSE IF js[Head(q)].id # jobId
       THEN <<Head(q)>> \o FilterQueue(Tail(q), js, jobId)
       ELSE FilterQueue(Tail(q), js, jobId)

\* this.currentJob.status = 'cancelled'; the kill is asynchronous and the
\* slot is freed by the 'close' handler, not here.
CancelCurrentAndReschedule(s) ==
  processQueue([s EXCEPT !.jobs[s.currentJob].status = "cancelled",
                         !.currentJob = Null, !.currentProcess = Null])
CancelCurrent(s) == [s EXCEPT !.jobs[s.currentJob].status = "cancelled"]

cancelJob(jobId) ==
  /\ ~ServerEnded
  /\ IF CancelHitsCurrent(St, jobId)
     THEN /\ Install(Emit(CancelCurrent(St)))
          /\ killed' = killed \cup {currentProcess}
     ELSE /\ Install(Emit([St EXCEPT !.queue = FilterQueue(queue, jobs, jobId)]))
          /\ killed' = killed
  /\ cancelAsked' = IF currentJob # Null /\ jobs[currentJob].id = jobId
                    THEN cancelAsked \cup {currentJob} ELSE cancelAsked
  /\ UNCHANGED <<statInFlight, adding, clock, delivered,
                 statFailed, spawnFailed>>
  /\ UNCHANGED inspVars

\* The ids cancelJob is called with: it compares its argument with the ids of
\* the jobs in the list and in the slot only, so one id that none of them has
\* stands for all such ids.
CalledIds ==
  {jobs[j].id : j \in Range(queue) \cup ({currentJob} \ {Null})}
    \cup {UnknownId}

\* ------------------------------------------------- stderr 'data' handler

\* parseInt(m[1]) * 3600 + parseInt(m[2]) * 60 + parseInt(m[3])
ToSeconds(m) == m[1] * 3600 + m[2] * 60 + m[3]

\* (currentTime / totalDuration) * 100 is a double that Math.round rounds
\* as it would the exact value, except where the exact value is a half m/2
\* (m odd) and the double falls below it: (29 / 200) * 100 is
\* 14.499999999999998.  Away from halves the double is too near the exact
\* value to cross one.
HalvesBelow ==
  {m \in 1..199 :
     /\ m % 2 = 1
     /\ DoubleLess(DoubleMul(DoubleDiv(m, 200), DoubleDiv(100, 1)),
                   DoubleDiv(m, 2))}

\* Math.min(100, Math.round((currentTime / totalDuration) * 100)), the
\* quotient and the product each rounded to a double
Progress(currentTime, totalDuration) ==
  LET exact == Round(currentTime * 100, totalDuration)
  IN Min(100, IF \E m \in HalvesBelow :
                      200 * currentTime = m * totalDuration
              THEN exact - 1 ELSE exact)

\* totalDuration after the chunk
DurationAfter(total, chunk) ==
  IF total = 0 /\ chunk.duration # NoMarker
  THEN ToSeconds(chunk.duration) ELSE total

StderrHandlerAlwaysEmits(p, chunk) ==
  /\ ~ServerEnded
  /\ p \in Live
  /\ LET total == DurationAfter(procs[p].totalDuration, chunk)
         s1 == [St EXCEPT !.procs[p].totalDuration = total]
     IN IF chunk.time # NoMarker /\ total > 0
        THEN Install(Emit([s1 EXCEPT !.jobs[p].progress =
                                   Progress(ToSeconds(chunk.time), total)]))
        ELSE Install(s1)
  /\ UNCHANGED <<statInFlight, killed, adding, clock, cancelAsked,
                 statFailed, spawnFailed>>
  /\ UNCHANGED inspVars
StderrHandler(p, chunk) ==
  /\ ~ServerEnded
  /\ p \in Live
  /\ LET total == DurationAfter(procs[p].totalDuration, chunk)
         s1 == [St EXCEPT !.procs[p].totalDuration = total]
     IN IF chunk.time # NoMarker /\ total > 0
           /\ jobs[p].progress # Progress(ToSeconds(chunk.time), total)
        THEN Install(Emit([s1 EXCEPT !.jobs[p].progress =
                                   Progress(ToSeconds(chunk.time), total)]))
        ELSE Install(s1)
  /\ UNCHANGED <<statInFlight, killed, adding, clock, cancelAsked,
                 statFailed, spawnFailed>>
  /\ UNCHANGED inspVars

\* The handler, for the chunks counted against MaxData and MaxChunks.
StderrData(p, chunk) ==
  /\ delivered < MaxData
  /\ delivered' = delivered + 1
  /\ StderrHandler(p, chunk)

StderrChunk(p, chunk) ==
  /\ delivered < MaxChunks
  /\ delivered' = delivered + 1
  /\ StderrHandler(p, chunk)

\* --------------------------------------------------------- size sampler

\* the setInterval callback up to `await fs.stat(outputPath)`
SamplerTick(p) ==
  /\ ~ServerEnded
  /\ p \in Live
  /\ procs[p].interval
  /\ p \notin statInFlight
  /\ delivered < MaxData
  /\ delivered' = delivered + 1
  /\ statInFlight' = statInFlight \cup {p}
  /\ emits' = 0
  /\ published' = <<>>
  /\ UNCHANGED <<jobs, queue, currentJob, currentProcess, procs, killed,
                 adding, clock, started, cancelAsked, statFailed,
                 spawnFailed>>
  /\ UNCHANGED inspVars

\* fs.stat resolved: job.currentFileSize = stats.size, and a snapshot
SamplerStatOkWritesOriginal(p, size) ==
  /\ ~ServerEnded
  /\ p \in statInFlight
  /\ statInFlight' = statInFlight \ {p}
  /\ Install(Emit([St EXCEPT !.jobs[p].originalFileSize = size]))
  /\ UNCHANGED <<killed, adding, clock, cancelAsked, delivered,
                 statFailed, spawnFailed>>
  /\ UNCHANGED inspVars

SamplerStatOk(p, size) ==
  /\ ~ServerEnded
  /\ p \in statInFlight
  /\ statInFlight' = statInFlight \ {p}
  /\ Install(Emit([St EXCEPT !.jobs[p].currentFileSize = size]))
  /\ UNCHANGED <<killed, adding, clock, cancelAsked, delivered,
                 statFailed, spawnFailed>>
  /\ UNCHANGED inspVars

\* fs.stat rejected: ignored
SamplerStatFails(p) ==
  /\ ~ServerEnded
  /\ p \in statInFlight
  /\ statInFlight' = statInFlight \ {p}
  /\ emits' = 0
  /\ published' = <<>>
  /\ UNCHANGED <<jobs, queue, currentJob, currentProcess, procs, killed,
                 adding, clock, started, cancelAsked, delivered,
                 statFailed, spawnFailed>>
  /\ UNCHANGED inspVars

\* -------------------------------------------------------- 'close' handler

\* `${code}`: the decimal text of an exit code
String(code) == CASE code = 0 -> "0" [] code = 1 -> "1"

\* `ffmpeg exited with code ${code}. See logs for details.`, in its pieces
ErrorMessage(code) ==
  <<"ffmpeg exited with code ", String(code), ". See logs for details.">>

\* if (code === 0) {...} else {...}
ExitedKeepsProgress(job, code) ==
  IF code = 0
  THEN [job EXCEPT !.status = "completed"]
  ELSE [job EXCEPT !.status = "failed"]
Exited(job, code) ==
  IF code = 0
  THEN [job EXCEPT !.status = "completed", !.progress = 100]
  ELSE [job EXCEPT !.status = "failed", !.error = ErrorMessage(code)]

\* if (job.status === 'processing') { ... }
CloseOutcomeUnguarded(job, code) == Exited(job, code)
CloseOutcome(job, code) ==
  IF job.status = "processing" THEN Exited(job, code) ELSE job

CloseWithoutReschedule(p, code) ==
  /\ ~ServerEnded
  /\ p \in Live
  /\ Install(Emit([St EXCEPT !.jobs[p] = CloseOutcome(@, code),
                             !.currentJob = Null,
                             !.currentProcess = Null,
                             !.procs = [q \in DOMAIN @ \ {p} |-> @[q]]]))
  /\ UNCHANGED <<statInFlight, killed, adding, clock, cancelAsked, delivered,
                 statFailed, spawnFailed>>
  /\ UNCHANGED inspVars
Close(p, code) ==
  /\ ~ServerEnded
  /\ p \in Live
  /\ LET s1 == [St EXCEPT !.jobs[p] = CloseOutcome(@, code),
                          !.currentJob = Null,
                          !.currentProcess = Null,
                          !.procs = [q \in DOMAIN @ \ {p} |-> @[q]]]
     IN Install(processQueue(Emit(s1)))
  /\ UNCHANGED <<statInFlight, killed, adding, clock, cancelAsked, delivered,
                 statFailed, spawnFailed>>
  /\ UNCHANGED inspVars

\* ---------------------------------------------------------- spawn 'error'

\* spawn() could not start ffmpeg: the ChildProcess emits 'error' on the next
\* tick, before any other handler runs.  The handler that ran last called
\* spawn(): processQueue emitted the second snapshot of that handler and set
\* this.currentProcess, and that process has written nothing.  processQueue
\* sets listeners for stderr 'data' and for 'close' only, so the event is
\* thrown and node ends the process; the job stays the current job with
\* status 'processing'.
SpawnError ==
  /\ ~ServerEnded
  /\ emits = 2
  /\ currentProcess # Null
  /\ currentProcess \notin files
  /\ spawnFailed' = TRUE
  /\ emits' = 0
  /\ published' = <<>>
  /\ UNCHANGED <<jobs, queue, currentJob, currentProcess, procs,
                 statInFlight, killed, adding, clock, started, cancelAsked,
                 delivered, statFailed>>
  /\ UNCHANGED inspVars

\* ------------------------------------------------------------------ clock

\* Date.now() is read once per admission, for the id, and only the order and
\* equality of the ids matter: the clock moves on only from a value that some
\* job has taken as its id.
Tick ==
  /\ ~ServerEnded
  /\ clock < MaxClock
  /\ \E j \in Refs : jobs[j].id = clock
  /\ clock' = clock + 1
  /\ emits' = 0
  /\ published' = <<>>
  /\ UNCHANGED <<jobs, queue, currentJob, currentProcess, procs, statInFlight,
                 killed, adding, started, cancelAsked, delivered,
                 statFailed, spawnFailed>>
  /\ UNCHANGED inspVars

\* ---------------------------------------------------------- specification

\* The manager's specifications leave the inspection route and the client
\* page out: no detectCrop call, no plan, no page.
NoCropRun == [status |-> "none"]
NoPlan == [stage |-> "none"]
NoPage == [stage |-> "none"]
NoRequest == [stage |-> "none"]
NoSnapshot == <<>>

\* What lies outside the part a specification is about: nothing of it moves.
Idle(vs) ==
  /\ "cropRun" \notin vs => cropRun = NoCropRun
  /\ "plan" \notin vs => plan = NoPlan
  /\ "page" \notin vs => page = NoPage
  /\ "request" \notin vs => request = NoRequest
  /\ "files" \notin vs => files = {}
  /\ "held" \notin vs => held = NoSnapshot

MgrInit ==
  /\ jobs = <<>>
  /\ queue = <<>>
  /\ currentJob = Null
  /\ currentProcess = Null
  /\ procs = <<>>
  /\ statInFlight = {}
  /\ killed = {}
  /\ adding = 0
  /\ clock = 0
  /\ emits = 0
  /\ cancelAsked = {}
  /\ started = <<>>
  /\ delivered = 0
  /\ statFailed = 0
  /\ spawnFailed = FALSE
  /\ published = <<>>

Init ==
  /\ MgrInit
  /\ Idle({})

Next ==
  \/ AddJobCall
  \/ \E a \in AudioStreamInputs : AddJobAdmit(a)
  \/ AddJobStatFails
  \/ \E id \in CalledIds : cancelJob(id)
  \/ \E p \in Live, c \in Chunks : StderrData(p, c)
  \/ \E p \in Live : SamplerTick(p)
  \/ \E p \in statInFlight, z \in FileSizes : SamplerStatOk(p, z)
  \/ \E p \in statInFlight : SamplerStatFails(p)
  \/ \E p \in Live, c \in ExitCodes : Close(p, c)
  \/ SpawnError
  \/ Tick

Spec == Init /\ [][Next]_vars

\* Every spawned process eventually emits 'close' (with some exit code), and
\* Node then runs the handler.
FairSpec ==
  Spec /\ WF_vars(\E p \in Live, c \in ExitCodes : Close(p, c))

\* The same manager behind its submit route, with fewer jobs, no size sampler
\* and a clock that stands still (every id is the same), and with the richer
\* requests and stderr chunks.
DetailNext ==
  \/ \E f \in RequestPaths, a \in RequestAudio : PostEncode(f, a)
  \/ \E a \in AcceptedAudio : AddJobAdmit(a)
  \/ AddJobStatFails
  \/ \E id \in CalledIds : cancelJob(id)
  \/ \E p \in Live, c \in DetailChunks : StderrChunk(p, c)
  \/ \E p \in Live, c \in ExitCodes : Close(p, c)
  \/ SpawnError

DetailSpec == Init /\ [][DetailNext]_vars

\* -------------------------------------------------------------- detectCrop

\* const timestamps = [duration * 0.2, duration * 0.5, duration * 0.8], in
\* percent of the duration.
Timestamps == <<20, 50, 80>>

\* What a sample's close handler resolves with: the last crop=w:h:x:y of the
\* probe's stderr, written <<w, h, x, y>>, or the string 'No crop detected',
\* written <<>>.
NoCropDetected == <<>>
CropRects == {<<720, 576, 0, 0>>, <<720, 432, 0, 72>>, <<704, 576, 8, 0>>}
SampleResults == CropRects \cup {NoCropDetected}

\* cropResults.reduce((acc, crop) => { acc[crop] = (acc[crop] || 0) + 1 })
CropCounts(cropResults) ==
  [v \in Range(cropResults) |->
     Cardinality({i \in DOMAIN cropResults : cropResults[i] = v})]

\* Object.keys(cropCounts): the keys in the order in which they were first
\* assigned.
RECURSIVE ObjectKeys(_)
ObjectKeys(cropResults) ==
  IF cropResults = <<>> THEN <<>>
  ELSE LET n == Len(cropResults)
           init == ObjectKeys(SubSeq(cropResults, 1, n - 1))
       IN IF cropResults[n] \in Range(init) THEN init
          ELSE Append(init, cropResults[n])

\* keys.reduce((a, b) => cropCounts[a] > cropCounts[b] ? a : b), from the
\* accumulator a over the keys that are left.
RECURSIVE Reduce(_, _, _)
Reduce(a, keys, counts) ==
  IF keys = <<>> THEN a
  ELSE Reduce(IF counts[a] > counts[Head(keys)] THEN a ELSE Head(keys),
              Tail(keys), counts)

\* The value detectCrop returns for the samples it has collected.
FirstSampleCrop(cropResults) == cropResults[1]
MostFrequentCrop(cropResults) ==
  LET keys == ObjectKeys(cropResults)
      mostFrequentCrop == Reduce(Head(keys), Tail(keys),
                                 CropCounts(cropResults))
  IN IF mostFrequentCrop # NoCropDetected THEN mostFrequentCrop
     ELSE NoCropDetected

\* detectCrop has been called and waits for its first sample.
CropStart ==
  [status |-> "sampling", cropResults |-> <<>>, codes |-> <<>>,
   result |-> NoCropDetected]

\* 'close' of the probe of the current sample: the handler does not look at
\* the exit code, it resolves with what stderr held; the loop pushes the value
\* and, after the last sample, detectCrop votes and returns.
CropSampleClosed(v, code) ==
  /\ cropRun.status = "sampling"
  /\ LET results == Append(cropRun.cropResults, v)
         codes == Append(cropRun.codes, code)
     IN cropRun' =
          IF Len(results) < Len(Timestamps)
          THEN [cropRun EXCEPT !.cropResults = results, !.codes = codes]
          ELSE [status |-> "done", cropResults |-> results, codes |-> codes,
                result |-> MostFrequentCrop(results)]
  /\ UNCHANGED <<mgrVars, plan, page, request, files, held>>

\* 'error' of the probe of the current sample (it could not be spawned): the
\* promise is rejected, the await in the loop throws, detectCrop rejects and
\* the route's catch answers 500.
CropSampleError ==
  /\ cropRun.status = "sampling"
  /\ cropRun' = [cropRun EXCEPT !.status = "failed"]
  /\ UNCHANGED <<mgrVars, plan, page, request, files, held>>

CropInit ==
  /\ MgrInit
  /\ cropRun = CropStart
  /\ Idle({"cropRun"})

CropNext ==
  \/ \E v \in SampleResults, c \in ExitCodes : CropSampleClosed(v, c)
  \/ CropSampleError

CropSpec == CropInit /\ [][CropNext]_vars

\* ------------------------------------------------------ correction plan

\* ffprobe's field_order of the video stream; "" stands for a field that is
\* absent (undefined and "" are both falsy).
FieldOrders == {"", "progressive", "tt", "bt", "unknown"}

\* ffprobe's sample_aspect_ratio.
SampleAspectRatios == {"", "1:1", "10:11", "0:1"}

\* width and height of the video stream
StreamSizes == {<<720, 576>>, <<718, 576>>}

\* ASPECT_RATIO_OPTIONS of the client; "" is a request without aspectRatio.
ASPECT_RATIO_OPTIONS == <<"None", "4:3", "16:9", "1.85:1", "2.00:1", "2.39:1">>
AspectRatioInputs == Range(ASPECT_RATIO_OPTIONS) \cup {""}

\* String.prototype.toUpperCase on the field orders ffprobe prints.
KeepCase(str) == str
ToUpperCase(str) ==
  CASE str = "tt" -> "TT"
    [] str = "bb" -> "BB"
    [] str = "tb" -> "TB"
    [] str = "bt" -> "BT"
    [] str = "progressive" -> "PROGRESSIVE"
    [] str = "unknown" -> "UNKNOWN"

\* str.split(':').map(Number), both numbers in hundredths so that 1.85 is
\* an integer.
SplitNumbers(str) ==
  CASE str = "4:3" -> <<400, 300>>
    [] str = "16:9" -> <<1600, 900>>
    [] str = "1.85:1" -> <<185, 100>>
    [] str = "2.00:1" -> <<200, 100>>
    [] str = "2.39:1" -> <<239, 100>>
    [] str = "1:1" -> <<100, 100>>
    [] str = "10:11" -> <<1000, 1100>>
    [] str = "0:1" -> <<0, 100>>
    [] str = "32:27" -> <<3200, 2700>>

\* videoStream?.field_order && videoStream.field_order !== 'progressive'
NeedsDeinterlace(fieldOrder) == fieldOrder # "" /\ fieldOrder # "progressive"

\* cropDetectResult.startsWith('crop=')
StartsWithCrop(cropDetectResult) == cropDetectResult # NoCropDetected

\* parseInt of the four parts of crop=w:h:x:y
CropDimensionsOf(cropDetectResult) ==
  [w |-> cropDetectResult[1], h |-> cropDetectResult[2],
   x |-> cropDetectResult[3], y |-> cropDetectResult[4]]

\* cropDimensions ? cropDimensions.w : videoStream.width
StreamWidthOnly(cropDetectResult, size) == size[1]
CurrentWidth(cropDetectResult, size) ==
  IF StartsWithCrop(cropDetectResult)
  THEN CropDimensionsOf(cropDetectResult).w ELSE size[1]

\* The filters, by kind: 'yadif', the crop string, `scale=${w}:${h}`,
\* 'scale=iw*sar:ih' and `setdar=dar=${n}/${d}`.
Yadif == [kind |-> "yadif"]
CropFilter(cropDetectResult) == [kind |-> "crop", rect |-> cropDetectResult]
ScaleFilter(w, h) == [kind |-> "scale", w |-> w, h |-> h]
ScaleBySar == [kind |-> "scale", expr |-> "iw*sar:ih"]
SetDar(aspectRatio) == [kind |-> "setdar", dar |-> aspectRatio]

\* The request has reached the derivation: ffprobe and the crop detection
\* have answered.
Probed(fieldOrder, sar, size, crop, aspectRatio) ==
  [stage |-> "probed", fieldOrder |-> fieldOrder, sar |-> sar, size |-> size,
   crop |-> crop, aspectRatio |-> aspectRatio]

\* router.post('/generate-screenshots') of routes/api.ts, from the probe
\* results to the filter list: deinterlace, crop, manual aspect ratio.  A
\* deinterlaceReason of null is written "", aspectRatioDetails (which this
\* version does not have) and a null of it are written <<>>.
DerivePlan ==
  /\ plan.stage = "probed"
  /\ LET f1 == IF NeedsDeinterlace(plan.fieldOrder) THEN <<Yadif>> ELSE <<>>
         deinterlaceReason ==
           IF NeedsDeinterlace(plan.fieldOrder)
           THEN ToUpperCase(plan.fieldOrder) ELSE ""
         f2 == IF StartsWithCrop(plan.crop)
               THEN Append(f1, CropFilter(plan.crop)) ELSE f1
         ar == IF plan.aspectRatio # "" /\ plan.aspectRatio # "None"
               THEN SplitNumbers(plan.aspectRatio) ELSE <<0, 0>>
         currentWidth == CurrentWidth(plan.crop, plan.size)
         f3 == IF ar[1] # 0 /\ ar[2] # 0
               THEN Append(f2, ScaleFilter(currentWidth,
                                           Round(currentWidth * ar[2], ar[1])))
               ELSE f2
     IN plan' = [stage |-> "derived", by |-> "api", fieldOrder |-> plan.fieldOrder,
                 sar |-> plan.sar, size |-> plan.size, crop |-> plan.crop,
                 aspectRatio |-> plan.aspectRatio, filters |-> f3,
                 deinterlaceReason |-> deinterlaceReason,
                 aspectRatioDetails |-> <<>>]
  /\ UNCHANGED <<mgrVars, cropRun, page, request, files, held>>

\* The same route in the version that corrects the sample aspect ratio:
\* deinterlace, scale by SAR, crop; the request has no aspectRatio.
DerivePlanWithSar ==
  /\ plan.stage = "probed"
  /\ LET f1 == IF NeedsDeinterlace(plan.fieldOrder) THEN <<Yadif>> ELSE <<>>
         deinterlaceReason ==
           IF NeedsDeinterlace(plan.fieldOrder)
           THEN ToUpperCase(plan.fieldOrder) ELSE ""
         corrects == plan.sar # "" /\ plan.sar # "1:1"
         f2 == IF corrects THEN Append(f1, ScaleBySar) ELSE f1
         sarParts == IF corrects THEN SplitNumbers(plan.sar) ELSE <<0, 0>>
         details ==
           IF corrects /\ plan.size[1] # 0 /\ plan.size[2] # 0
              /\ sarParts[1] # 0 /\ sarParts[2] # 0
           THEN <<[sar |-> plan.sar,
                   originalResolution |-> plan.size,
                   targetResolution |->
                     <<Round(plan.size[1] * sarParts[1], sarParts[2]),
                       plan.size[2]>>]>>
           ELSE <<>>
         f3 == IF StartsWithCrop(plan.crop)
               THEN Append(f2, CropFilter(plan.crop)) ELSE f2
     IN plan' = [stage |-> "derived", by |-> "api-sar", fieldOrder |-> plan.fieldOrder,
                 sar |-> plan.sar, size |-> plan.size, crop |-> plan.crop,
                 aspectRatio |-> plan.aspectRatio, filters |-> f3,
                 deinterlaceReason |-> deinterlaceReason,
                 aspectRatioDetails |-> details]
  /\ UNCHANGED <<mgrVars, cropRun, page, request, files, held>>

\* The encode of the inspected file: the page submits crop (the detected
\* string or null), deinterlace (!!deinterlaceReason) and the selected aspect
\* ratio, and processQueue builds videoFilters from them.
BuildVideoFilters ==
  /\ plan.stage = "derived"
  /\ plan.by = "api"
  /\ LET deinterlace == plan.deinterlaceReason # ""
         aspectRatio == IF plan.aspectRatio = "" THEN "None" ELSE plan.aspectRatio
         v1 == IF deinterlace THEN <<Yadif>> ELSE <<>>
         v2 == IF StartsWithCrop(plan.crop)
               THEN Append(v1, CropFilter(plan.crop)) ELSE v1
         v3 == IF aspectRatio # "" /\ aspectRatio # "None"
               THEN Append(v2, SetDar(aspectRatio)) ELSE v2
     IN plan' = [plan EXCEPT !.stage = "encoding", !.filters = v3]
  /\ UNCHANGED <<mgrVars, cropRun, page, request, files, held>>

PlanInit ==
  /\ MgrInit
  /\ Idle({"plan"})
  /\ \E fo \in FieldOrders, sar \in SampleAspectRatios, size \in StreamSizes,
        crop \in SampleResults, ar \in AspectRatioInputs :
       plan = Probed(fo, sar, size, crop, ar)

PlanNext ==
  \/ DerivePlan
  \/ DerivePlanWithSar
  \/ BuildVideoFilters

PlanSpec == PlanInit /\ [][PlanNext]_vars

\* ------------------------------------------------------------ detail page

\* The ratios object of getBestAspectRatio, in the order of its keys.
RatioOptions == Tail(ASPECT_RATIO_OPTIONS)
RatioOf(option) ==
  LET nd == SplitNumbers(option) IN DoubleDiv(nd[1], nd[2])

\* The videoStream of an inspection response; a width of 0 is a width that is
\* missing, cropDimensions of <<>> is null.
StreamInfo(width, height, sar, crop) ==
  [width |-> width, height |-> height, sample_aspect_ratio |-> sar,
   cropDimensions |-> IF StartsWithCrop(crop)
                      THEN <<CropDimensionsOf(crop)>> ELSE <<>>]

\* The video streams of the files of the list: a DVD title, whose guess is
\* 16:9, and one with no width, whose guess is 'None'.
StreamInfos ==
  {StreamInfo(720, 480, "32:27", NoCropDetected),
   StreamInfo(0, 1080, "1:1", NoCropDetected)}

\* The video streams getBestAspectRatio is applied to on its own: each width
\* and height, missing ones included, with each sample aspect ratio ffprobe
\* prints, an absent one included, with and without a detected crop.
VideoStreams ==
  {StreamInfo(width, height, sar, crop) :
     width \in {0, 592, 720, 1208, 1920},
     height \in {0, 480, 576, 720, 1040, 1080},
     sar \in {"", "1:1", "32:27", "0:1", "10:11"},
     crop \in {NoCropDetected, <<1920, 800, 0, 140>>, <<592, 480, 64, 0>>}}

\* let sar = 1; if (sample_aspect_ratio && ...) { if (sarW && sarH) sar = ... }
Sar(sample_aspect_ratio) ==
  IF sample_aspect_ratio = "" THEN DoubleDiv(1, 1)
  ELSE LET nd == SplitNumbers(sample_aspect_ratio)
       IN IF nd[1] # 0 /\ nd[2] # 0 THEN DoubleDiv(nd[1], nd[2])
          ELSE DoubleDiv(1, 1)

\* (displayWidth / displayHeight) * sar
CalculatedDAR(videoStream) ==
  LET displayWidth == IF videoStream.cropDimensions # <<>>
                      THEN videoStream.cropDimensions[1].w
                      ELSE videoStream.width
      displayHeight == IF videoStream.cropDimensions # <<>>
                       THEN videoStream.cropDimensions[1].h
                       ELSE videoStream.height
  IN DoubleMul(DoubleDiv(displayWidth, displayHeight),
               Sar(videoStream.sample_aspect_ratio))

\* for (const option in ratios) { if (diff < smallestDiff) { ... } }, from the
\* closest option found so far.
RECURSIVE ClosestOption(_, _, _)
ClosestOption(options, dar, best) ==
  IF options = <<>> THEN best
  ELSE LET diff == DoubleAbsDiff(dar, RatioOf(Head(options)))
       IN ClosestOption(Tail(options), dar,
                        IF DoubleLess(diff, best.smallestDiff)
                        THEN [closestOption |-> Head(options),
                              smallestDiff |-> diff]
                        ELSE best)

getBestAspectRatio(videoStream) ==
  IF videoStream.width = 0 \/ videoStream.height = 0
  THEN ASPECT_RATIO_OPTIONS[1]
  ELSE LET best == ClosestOption(RatioOptions, CalculatedDAR(videoStream),
                                 [closestOption |-> ASPECT_RATIO_OPTIONS[1],
                                  smallestDiff |-> DoubleInfinity])
       IN IF DoubleLess(best.smallestDiff, DoubleDiv(1, 10))
          THEN best.closestOption
          ELSE ASPECT_RATIO_OPTIONS[1]

\* getBestAspectRatio of each stream the files of the list can have, worked
\* out once.
BestGuesses == [videoStream \in StreamInfos |-> getBestAspectRatio(videoStream)]

\* The files of the list, by index; Previous and Next lead to the neighbours.
Files == {1, 2}

\* The location of the file list, written as the file 0.
FileList == 0

\* The index of the first audio stream of a file that has one: the stream
\* after the video stream.
AudioIndex == 1

\* searchParams.get('ar') || 'None'
CurrentAspectRatio(ar) == IF ar = "" THEN "None" ELSE ar

\* filePath.split(/[\\/]/).pop()?.replace(/\.[^/.]+$/, "")
BaseName(f) == CASE f = 1 -> "file1" [] f = 2 -> "file2"

\* The useState initial values of a VideoDetailPage: isProcessing, mediaInfo
\* (null, written as the file list), selectedAudioStreams and outputFilename.
InitialState ==
  [isProcessing |-> TRUE, mediaInfo |-> FileList,
   selectedAudioStreams |-> {}, outputFilename |-> ""]

\* React has something to render: a location of the router that the last
\* render has not shown (navigate() and setSearchParams() called in the
\* continuation of a request are rendered in a later task), or state that a
\* setter has changed since.  The list is rendered with fileId FileList.
RenderPending(p) ==
  p.to # [file |-> p.fileId, ar |-> p.ar] \/ p.state # p.dom

\* The last render has changed a dependency of an effect that has not run
\* yet: [fileId, currentAspectRatio] (a change of filePath is one of fileId).
\* ran holds the dependencies the effects last ran with, the file list while
\* the component has run none.
EffectsPending(p) ==
  /\ p.stage = "shown"
  /\ p.ran # [file |-> p.fileId, ar |-> CurrentAspectRatio(p.ar)]

\* The effect with dependencies [filePath]: it asks for the encode defaults.
DefaultsEffect(p) ==
  [p EXCEPT !.defaults = @ \cup {[id |-> p.sent + 1, file |-> p.fileId,
                                  inst |-> p.inst]}]

\* The effect with dependencies [fileId, currentAspectRatio]: it posts the
\* inspection request, whose continuation keeps the searchParams of the
\* render that started it, and sets isProcessing.
RunEffect(p) ==
  [p EXCEPT !.inFlight = @ \cup {[id |-> p.sent + 1, file |-> p.fileId,
                                  ar |-> p.ar, inst |-> p.inst]},
            !.sent = @ + 1,
            !.state.isProcessing = TRUE,
            !.ran = [file |-> p.fileId, ar |-> CurrentAspectRatio(p.ar)]]

\* The effects of the last render, in the order of their useEffect calls.
AfterEffects(p) ==
  IF ~EffectsPending(p) THEN p
  ELSE RunEffect(IF p.ran.file # p.fileId THEN DefaultsEffect(p) ELSE p)

\* React renders the location p.to and the state of the component.  On the
\* list nothing of the detail page is mounted; coming from the list a new
\* VideoDetailPage is mounted, with the initial state and no effect run yet;
\* from one file to another the component stays, with its state.
AfterRender(p) ==
  IF p.to.file = FileList
  THEN [p EXCEPT !.stage = "list", !.fileId = FileList, !.ar = p.to.ar,
                 !.state = InitialState, !.dom = InitialState,
                 !.ran = [file |-> FileList, ar |-> "None"]]
  ELSE IF p.stage = "list"
  THEN [p EXCEPT !.stage = "shown", !.fileId = p.to.file, !.ar = p.to.ar,
                 !.inst = @ + 1, !.state = InitialState,
                 !.dom = InitialState,
                 !.ran = [file |-> FileList, ar |-> "None"]]
  ELSE [p EXCEPT !.fileId = p.to.file, !.ar = p.to.ar, !.dom = p.state]

\* What React does before a discrete event (a click, a change) is over, p
\* being the page after the handler: the effects that were still to run, a
\* synchronous render, and the effects of that render.  The render takes the
\* updates of the handler, which leave the location loc and the state own to
\* show; with a React that renders every pending update in a synchronous
\* render (React 19; React 18 does not, and the version is the build's) it
\* takes what a continuation or an effect had set before as well.  What the
\* effects of this render set (setIsProcessing(true)) is rendered in a later
\* task.  Mounting and unmounting leave no state of the page behind.
Flushed(p, loc, own) ==
  LET q == AfterEffects(p)
  IN AfterEffects(IF q.renderAll \/ q.stage = "list" \/ q.to.file = FileList
                  THEN AfterRender(q)
                  ELSE [q EXCEPT !.fileId = loc.file, !.ar = loc.ar,
                                 !.dom = own])

\* The page is installed if the requests it has sent stay within the bound.
Show(new) ==
  /\ new.sent <= MaxRequests
  /\ page' = new
  /\ UNCHANGED <<mgrVars, cropRun, plan, request, files, held>>

\* The render that follows the continuation of a request or an effect.  The
\* effects of a render run before the next render.
Render ==
  /\ page.stage # "none"
  /\ RenderPending(page)
  /\ ~EffectsPending(page)
  /\ Show(AfterRender(page))

\* The effects of a render, run in a task of their own: the continuation of
\* a request can run between the render and them.
RunEffects ==
  /\ page.stage # "none"
  /\ EffectsPending(page)
  /\ Show(AfterEffects(page))

\* handleAspectRatioChange: the select that the last render has put out is
\* disabled while isProcessing, and a change event carries an option other
\* than the one it shows.  setSearchParams({ ar }) keeps the path, which is
\* the one the router has now or the one of the render the handler is of.
SelectAspectRatio(option) ==
  /\ page.stage = "shown"
  /\ ~page.dom.isProcessing
  /\ option # CurrentAspectRatio(page.ar)
  /\ \E target \in {page.to.file, page.fileId} :
       Show(Flushed([page EXCEPT !.to = [file |-> target, ar |-> option],
                                 !.chosen = IF target = page.fileId
                                            THEN option ELSE ""],
                    [file |-> target, ar |-> option], page.dom))

\* The Previous / Next link, which leads to a neighbour of the file that the
\* last render has shown: the same component shows the other file, the URL
\* has no ar.
GoToFile(f) ==
  /\ page.stage = "shown"
  /\ f \in {page.fileId - 1, page.fileId + 1}
  /\ Show(Flushed([page EXCEPT !.to = [file |-> f, ar |-> ""],
                               !.chosen = ""],
                  [file |-> f, ar |-> ""], page.dom))

\* <Link to="/">: the link is there whatever isProcessing is.  The page is
\* unmounted; its effects return no cleanup, so its requests stay in flight
\* and their continuations will run.
BackToList ==
  /\ page.stage = "shown"
  /\ Show(Flushed([page EXCEPT !.to = [file |-> FileList, ar |-> ""],
                               !.chosen = ""],
                  [file |-> FileList, ar |-> ""], page.dom))

\* A link of the file list.
OpenFile(f) ==
  /\ page.stage = "list"
  /\ Show(Flushed([page EXCEPT !.to = [file |-> f, ar |-> ""],
                               !.chosen = ""],
                  [file |-> f, ar |-> ""], page.dom))

\* handleAudioStreamChange, on a checkbox of renderMediaInfo: the last render
\* has put out one for each audio stream of mediaInfo, under !isProcessing.
\* The setter works on the latest selection.
handleAudioStreamChange(streamIndex) ==
  /\ page.stage = "shown"
  /\ ~page.dom.isProcessing
  /\ page.dom.mediaInfo # FileList
  /\ page.info[page.dom.mediaInfo].audio = streamIndex
  /\ LET Toggled(prev) == IF streamIndex \in prev THEN prev \ {streamIndex}
                          ELSE prev \cup {streamIndex}
     IN Show(Flushed([page EXCEPT !.state.selectedAudioStreams = Toggled(@)],
                     [file |-> page.fileId, ar |-> page.ar],
                     [page.dom EXCEPT !.selectedAudioStreams = Toggled(@)]))

\* onChange of the outputFilename input, which is under !isProcessing.
setOutputFilename(value) ==
  /\ page.stage = "shown"
  /\ ~page.dom.isProcessing
  /\ value # page.dom.outputFilename
  /\ Show(Flushed([page EXCEPT !.state.outputFilename = value],
                  [file |-> page.fileId, ar |-> page.ar],
                  [page.dom EXCEPT !.outputFilename = value]))

\* The state setters of a continuation act on the component that started the
\* request, if it is still mounted.
Mounted(r) == page.stage = "shown" /\ r.inst = page.inst

\* fetchDefaultsAndSetFilename after its fetch.  The router of the server has
\* no route for /api/encode/defaults, so the answer brings no defaults and the
\* name is the base name of the file, as it is after a failed fetch.
DefaultsAnswered(d) ==
  /\ d \in page.defaults
  /\ LET p1 == [page EXCEPT !.defaults = @ \ {d}]
     IN Show(IF Mounted(d)
             THEN [p1 EXCEPT !.state.outputFilename = BaseName(d.file)]
             ELSE p1)

\* The continuation of generateScreenshots after an ok response: the state
\* of the component is set; with no ar in the searchParams it has kept, the
\* best guess is applied unless that is 'None'; the first audio stream is
\* selected and finally isProcessing is cleared.  setSearchParams replaces
\* the search of the location on the path the router resolves the relative
\* navigation to, which is the one it has now or the one of the render that
\* started the request.  What it has set is rendered in a later task.
ResponseOk(r) ==
  /\ r \in page.inFlight
  /\ LET data == page.info[r.file]
         p1 == [page EXCEPT !.inFlight = @ \ {r}]
         p2 == IF Mounted(r)
               THEN [p1 EXCEPT !.state.mediaInfo = r.file,
                               !.state.selectedAudioStreams =
                                  IF data.audio # 0 THEN {data.audio} ELSE @,
                               !.state.isProcessing = FALSE]
               ELSE p1
         bestGuess == BestGuesses[data.videoStream]
     IN IF r.ar # "" \/ bestGuess = "None" THEN Show(p2)
        ELSE \E target \in {page.to.file, r.file} :
               Show([p2 EXCEPT !.to = [file |-> target, ar |-> bestGuess],
                               !.chosen = IF target = page.to.file
                                          THEN @ ELSE ""])

\* The continuation after a response that is not ok, or a failed fetch.
ResponseError(r) ==
  /\ r \in page.inFlight
  /\ LET p1 == [page EXCEPT !.inFlight = @ \ {r}]
     IN Show(IF Mounted(r)
             THEN [p1 EXCEPT !.state.isProcessing = FALSE] ELSE p1)

\* The add-to-queue requests that await their answer, counted by the file
\* they were sent for.
Pending(count) ==
  Cardinality({fk \in Files \X (1..MaxAdds) : fk[2] <= count[fk[1]]})

\* handleAddToQueue up to its await: the button that the last render has put
\* out is disabled while isProcessing, without a selected audio stream and
\* without an output name; the request is sent and the handler keeps the
\* fileId of that render.
AddToQueue ==
  /\ page.stage = "shown"
  /\ ~(page.dom.isProcessing \/ page.dom.selectedAudioStreams = {}
         \/ page.dom.outputFilename = "")
  /\ Pending(page.adding) < MaxAdds
  /\ Show([page EXCEPT !.adding[page.fileId] = @ + 1])

\* The continuation of handleAddToQueue after an ok response: navigate() to
\* the file after the one the button was clicked on, if there is one, whatever
\* the location is by now; the URL it navigates to has no ar.  The page of
\* that file is rendered, and its request sent, in later tasks.
AddToQueueOk(f) ==
  /\ page.stage # "none"
  /\ page.adding[f] > 0
  /\ LET p1 == [page EXCEPT !.adding[f] = @ - 1]
     IN Show(IF f + 1 \in Files
             THEN [p1 EXCEPT !.to = [file |-> f + 1, ar |-> ""],
                             !.chosen = ""]
             ELSE p1)

\* The continuation after a response that is not ok, or a failed fetch: a
\* toast, no navigation.
AddToQueueError(f) ==
  /\ page.stage # "none"
  /\ page.adding[f] > 0
  /\ Show([page EXCEPT !.adding[f] = @ - 1])

\* The client has been opened on the file list; the second file is a DVD
\* title with an audio stream, the first one is another such title or a file
\* whose video stream has no width and that has no audio stream.
PageInit ==
  /\ MgrInit
  /\ Idle({"page"})
  /\ \E videoStream \in StreamInfos, renderAll \in BOOLEAN :
       page = [stage |-> "list", fileId |-> FileList, ar |-> "",
               renderAll |-> renderAll,
               to |-> [file |-> FileList, ar |-> ""], inst |-> 0,
               state |-> InitialState, dom |-> InitialState,
               ran |-> [file |-> FileList, ar |-> "None"],
               inFlight |-> {}, defaults |-> {}, sent |-> 0,
               chosen |-> "",
               info |-> [f \in Files |->
                           IF f = 1
                           THEN [videoStream |-> videoStream,
                                 audio |-> IF videoStream.width = 0 THEN 0
                                           ELSE AudioIndex]
                           ELSE [videoStream |->
                                   StreamInfo(720, 480, "32:27",
                                              NoCropDetected),
                                 audio |-> AudioIndex]],
               adding |-> [f \in Files |-> 0]]

PageNext ==
  \/ \E f \in Files : OpenFile(f)
  \/ Render
  \/ RunEffects
  \/ \E o \in Range(ASPECT_RATIO_OPTIONS) : SelectAspectRatio(o)
  \/ \E f \in Files : GoToFile(f)
  \/ BackToList
  \/ handleAudioStreamChange(AudioIndex)
  \/ \E value \in {"", "typed"} : setOutputFilename(value)
  \/ \E d \in page.defaults : DefaultsAnswered(d)
  \/ \E r \in page.inFlight : ResponseOk(r)
  \/ \E r \in page.inFlight : ResponseError(r)
  \/ AddToQueue
  \/ \E f \in Files : AddToQueueOk(f)
  \/ \E f \in Files : AddToQueueError(f)

PageSpec == PageInit /\ [][PageNext]_vars

\* ------------------------------------------------- getBestAspectRatio alone

\* A video stream of an inspection response is at hand.
GuessInit ==
  /\ MgrInit
  /\ Idle({"page"})
  /\ \E videoStream \in VideoStreams :
       page = [stage |-> "response", videoStream |-> videoStream,
               bestGuess |-> ""]

\* const bestGuess = getBestAspectRatio(data.mediaInfo.videoStream)
Guess ==
  /\ page.stage = "response"
  /\ page' = [page EXCEPT !.stage = "guessed",
                          !.bestGuess = getBestAspectRatio(page.videoStream)]
  /\ UNCHANGED <<mgrVars, cropRun, plan, request, files, held>>

GuessSpec == GuessInit /\ [][Guess]_vars

\* ------------------------------------------------------------ output files

\* ffmpeg, started with '-y', outputPath, writes its output while it runs (a
\* process that could not be spawned never runs, and the server has ended):
\* the file at the job's output path now holds what this process wrote, and
\* what another job had written to the same path is gone.  files is the set
\* of jobs whose output is on disk.
OutputWritten(p) ==
  /\ ~ServerEnded
  /\ p \in Live
  /\ p \notin files
  /\ files' = {q \in files : jobs[q].outputPath # jobs[p].outputPath} \cup {p}
  /\ UNCHANGED <<mgrVars, cropRun, plan, page, request, held>>

\* The manager with the output files of its processes, without progress and
\* size reports.  Nothing in the manager deletes a file.
FileNext ==
  \/ AddJobCall
  \/ \E a \in AudioStreamInputs : AddJobAdmit(a)
  \/ \E id \in CalledIds : cancelJob(id)
  \/ \E p \in Live : OutputWritten(p)
  \/ \E p \in Live, c \in ExitCodes : Close(p, c)
  \/ SpawnError
  \/ Tick

\* Every spawned process eventually emits 'close', as in FairSpec.
FileFairSpec ==
  /\ Init
  /\ [][FileNext]_vars
  /\ WF_vars(\E p \in Live, c \in ExitCodes : Close(p, c))

\* ---------------------------------------------------------------- observer

\* const state = encodeManager.getQueueState(), kept by its caller: the
\* object holds this.queue and this.currentJob themselves, not copies.  What
\* the caller saw in it at that moment is kept beside the references: the
\* list, and the fields of every job.
Observe ==
  /\ ~ServerEnded
  /\ held = NoSnapshot
  /\ jobs # <<>>
  /\ held' = [currentJob |-> currentJob, seenQueue |-> queue,
              seenJobs |-> jobs]
  /\ UNCHANGED <<mgrVars, cropRun, plan, page, request, files>>

\* What is read through a snapshot h now.  h.queue is the array this.queue
\* as long as the manager has not put another array in its place, which only
\* cancelJob's filter does; the jobs are the job objects themselves.
SeenThrough(h) ==
  [queue |-> queue, currentJob |-> h.currentJob,
   jobs |-> [j \in (Range(queue) \cup {h.currentJob}) \ {Null} |-> jobs[j]]]

\* What was read through h when it was obtained.
SeenThen(h) ==
  [queue |-> h.seenQueue, currentJob |-> h.currentJob,
   jobs |-> [j \in (Range(h.seenQueue) \cup {h.currentJob}) \ {Null} |->
               h.seenJobs[j]]]

\* The manager and a caller that keeps one snapshot, with every operation
\* that works on this.queue in place.
ObserverNext ==
  \/ AddJobCall
  \/ \E a \in AudioStreamInputs : AddJobAdmit(a)
  \/ \E p \in Live, c \in Chunks : StderrData(p, c)
  \/ \E p \in Live : SamplerTick(p)
  \/ \E p \in statInFlight, z \in FileSizes : SamplerStatOk(p, z)
  \/ \E p \in Live, c \in ExitCodes : Close(p, c)
  \/ SpawnError
  \/ Observe

ObserverSpec == Init /\ [][ObserverNext]_vars

\* ------------------------------------------------------ inspection request

\* mediaInfo?.format?.duration as ffprobe prints it; "" is a duration that
\* is absent.
DurationTexts == {"N/A", "", "3600.000000"}

\* parseFloat on these texts: <<n>> for the number n, <<>> for NaN.
NaN == <<>>
ParseFloat(str) ==
  CASE str = "3600.000000" -> <<3600>>
    [] OTHER -> NaN

\* for (let i = 0; i < 12; i++): the screenshots of one request.
ScreenshotCount == 12

\* The two versions of router.post('/generate-screenshots'): "api" takes the
\* crop samples after the duration is known, "api-sar" starts its one crop
\* probe together with ffprobe.
RouteVersions == {"api", "api-sar"}

Received(by, filePath, durationText) ==
  [stage |-> "received", by |-> by, filePath |-> filePath,
   durationText |-> durationText,
   mediaInfo |-> FALSE, cropRunning |-> FALSE, cropProbes |-> 0,
   cropResults |-> <<>>, shots |-> 0, response |-> 0]

\* res.status(code).json(...): the request is answered once.
Respond(r, code) == [r EXCEPT !.stage = "answered", !.response = code]

\* spawn of the probe of the next crop sample
SpawnCropProbe(r) ==
  [r EXCEPT !.cropProbes = @ + 1, !.cropRunning = TRUE]

\* spawn of the ffmpeg of the next screenshot
SpawnScreenshot(r) == [r EXCEPT !.stage = "shooting", !.shots = @ + 1]

\* const duration = parseFloat(...); if (isNaN(duration)) throw ...: the
\* throw is caught by the route's catch, which answers 500.
AfterMediaInfo(r, continue) ==
  IF ParseFloat(r.durationText) = NaN THEN Respond(r, 500) ELSE continue

Route(new) ==
  /\ request' = new
  /\ UNCHANGED <<mgrVars, cropRun, plan, page, files, held>>

\* The handler up to its first await: a request without filePath is answered
\* 400 and nothing is started; otherwise ffprobe is spawned, and in the
\* earlier version the crop probe with it.
PostGenerateScreenshots ==
  /\ request.stage = "received"
  /\ Route(IF ~Truthy(request.filePath) THEN Respond(request, 400)
           ELSE IF request.by = "api"
                THEN [request EXCEPT !.stage = "probing"]
           ELSE SpawnCropProbe([request EXCEPT !.stage = "probing"]))

\* 'close' of ffprobe: exit code 0 resolves with the media info, any other
\* rejects.  In "api" the handler goes on to the duration and to detectCrop;
\* in "api-sar" Promise.all still waits for the crop probe.
FfprobeClosed(code) ==
  /\ request.stage = "probing"
  /\ ~request.mediaInfo
  /\ LET r == [request EXCEPT !.mediaInfo = TRUE]
     IN Route(IF code # 0 THEN Respond(request, 500)
              ELSE IF request.by = "api"
                   THEN AfterMediaInfo(r, SpawnCropProbe(
                                            [r EXCEPT !.stage = "sampling"]))
              ELSE IF request.cropRunning THEN r
              ELSE AfterMediaInfo(r, [r EXCEPT !.stage = "preparing"]))

\* 'error' of ffprobe: the promise is rejected.
FfprobeError ==
  /\ request.stage = "probing"
  /\ ~request.mediaInfo
  /\ Route(Respond(request, 500))

\* 'close' of a crop probe, with the value it resolves to.  "api" spawns the
\* next sample until it has three; "api-sar" has one sample, and goes on when
\* the media info is there.  A probe that outlives the answer changes nothing
\* but itself.
CropProbeClosed(v) ==
  /\ request.cropRunning
  /\ LET r == [request EXCEPT !.cropRunning = FALSE,
                              !.cropResults = Append(@, v)]
     IN Route(IF request.stage = "answered" THEN r
              ELSE IF request.by = "api"
                   THEN IF Len(r.cropResults) < Len(Timestamps)
                        THEN SpawnCropProbe(r)
                        ELSE [r EXCEPT !.stage = "preparing"]
              ELSE IF ~request.mediaInfo THEN r
              ELSE AfterMediaInfo(r, [r EXCEPT !.stage = "preparing"]))

\* 'error' of a crop probe: the promise is rejected, and so is the request
\* unless it has been answered.
CropProbeError ==
  /\ request.cropRunning
  /\ LET r == [request EXCEPT !.cropRunning = FALSE]
     IN Route(IF request.stage = "answered" THEN r ELSE Respond(r, 500))

\* fs.rm and fs.mkdir of the output directory have resolved: the first
\* screenshot is started.
OutputDirReady ==
  /\ request.stage = "preparing"
  /\ Route(SpawnScreenshot(request))

\* fs.rm or fs.mkdir has rejected.
OutputDirFails ==
  /\ request.stage = "preparing"
  /\ Route(Respond(request, 500))

\* 'close' of a screenshot's ffmpeg: code 0 goes on to the next one and after
\* the last answers with the result, any other code rejects.
ScreenshotClosed(code) ==
  /\ request.stage = "shooting"
  /\ Route(IF code # 0 THEN Respond(request, 500)
           ELSE IF request.shots < ScreenshotCount
                THEN SpawnScreenshot(request)
           ELSE Respond(request, 200))

\* 'error' of a screenshot's ffmpeg.
ScreenshotError ==
  /\ request.stage = "shooting"
  /\ Route(Respond(request, 500))

RouteInit ==
  /\ MgrInit
  /\ Idle({"request"})
  /\ \E by \in RouteVersions, f \in RequestPaths, d \in DurationTexts :
       request = Received(by, f, d)

RouteNext ==
  \/ PostGenerateScreenshots
  \/ \E c \in ExitCodes : FfprobeClosed(c)
  \/ FfprobeError
  \/ \E v \in SampleResults : CropProbeClosed(v)
  \/ CropProbeError
  \/ OutputDirReady
  \/ OutputDirFails
  \/ \E c \in ExitCodes : ScreenshotClosed(c)
  \/ ScreenshotError

RouteSpec == RouteInit /\ [][RouteNext]_vars

\* ------------------------------------------------------------------ claims

Terminal == {"completed", "failed", "cancelled"}
Processing == {j \in Refs : jobs[j].status = "processing"}

\* C1: in every reachable state at most one job known to the manager has
\* status 'processing'.
C1_AtMostOneProcessing == Cardinality(Processing) <= 1

\* A job is processing while another has already finished and a third waits.
C1_Witness ==
  /\ Cardinality(Processing) = 1
  /\ queue # <<>>
  /\ \E j \in Refs : jobs[j].status \in Terminal

\* C2: at most one spawned process has its close event outstanding, and while
\* a process that was asked to be killed is still outstanding no other
\* process appears.
C2_AtMostOneLiveProcess ==
  /\ [](Cardinality(Live) <= 1)
  /\ [](currentProcess # Null => Live = {currentProcess})
  /\ [][\A p \in Live \cap killed : p \in Live' => Live' = {p}]_vars

\* The running job was cancelled, its process has not closed, a job waits.
C2_Witness ==
  /\ \E p \in Live \cap killed : jobs[p].status = "cancelled"
  /\ queue # <<>>

\* C3: the close handler leaves a job that is already 'cancelled' alone: its
\* status stays 'cancelled' and its error stays unset, for every exit code.
C3_CloseKeepsCancelled ==
  [][\A p \in Live, c \in ExitCodes :
       (jobs[p].status = "cancelled" /\ Close(p, c))
         => (jobs'[p].status = "cancelled" /\ jobs'[p].error = <<>>)]_vars

\* A cancelled job whose process has closed.
C3_Witness ==
  \E j \in Refs : jobs[j].status = "cancelled" /\ j \in killed /\ j \notin Live

\* C4: a status changes only from pending to processing and from processing
\* to completed, failed or cancelled; a terminal status never changes.
C4_StatusTransitions ==
  [][\A j \in Refs :
       \/ jobs'[j].status = jobs[j].status
       \/ jobs[j].status = "pending" /\ jobs'[j].status = "processing"
       \/ jobs[j].status = "processing" /\ jobs'[j].status \in Terminal]_vars

\* All three terminal statuses have been reached, each by a closed process.
C4_Witness ==
  /\ Live = {}
  /\ \A st \in Terminal : \E j \in Refs : jobs[j].status = st

\* C5: jobs are taken in the order they were appended (references are given
\* in that order), and when a job is taken every process launched for an
\* earlier job has closed: the only live process is the last job taken.
C5_StartOrderIsAppendOrder ==
  /\ \A a, b \in 1..Len(started) : a < b => started[a] < started[b]
  /\ \A p \in Live : p = started[Len(started)]
  /\ \A k \in 1..Len(queue) : \A a \in 1..Len(started) : started[a] < queue[k]

\* Three jobs were taken, one after the other.
C5_Witness == Len(started) = 3 /\ Live = {3}

\* C6: a close handled while the job is still 'processing' sets, for exit
\* code 0, status 'completed' and progress 100 (whatever the progress was),
\* and for any other code status 'failed' and an error message that is not
\* empty and contains the code.
C6_CloseWhileProcessing ==
  [][\A p \in Live, c \in ExitCodes :
       (jobs[p].status = "processing" /\ Close(p, c))
         => IF c = 0
            THEN jobs'[p].status = "completed" /\ jobs'[p].progress = 100
            ELSE /\ jobs'[p].status = "failed"
                 /\ jobs'[p].error # <<>>
                 /\ String(c) \in Range(jobs'[p].error)]_vars

\* One job completed and another failed, and no stderr chunk was ever
\* delivered: no duration marker was parsed.
C6_Witness ==
  /\ delivered = 0
  /\ \E j \in Refs : jobs[j].status = "completed" /\ jobs[j].progress = 100
  /\ \E j \in Refs : jobs[j].status = "failed" /\ "1" \in Range(jobs[j].error)

\* C7: the close handler removes the process, clears the slot and the handle
\* and, in the same step, processQueue takes the head of the pending list if
\* there is one: the head becomes the current job with status 'processing'.
\* So between handlers the slot is empty only when the pending list is empty.
C7_CloseReschedules ==
  /\ [](currentJob = Null => queue = <<>>)
  /\ [][\A p \in Live, c \in ExitCodes :
          (UNCHANGED <<statInFlight, killed, adding, clock, cancelAsked,
                       delivered, statFailed, spawnFailed>>
             /\ Close(p, c)) =>
            /\ p \notin Live'
            /\ currentProcess' # p
            /\ IF queue = <<>>
               THEN currentJob' = Null /\ currentProcess' = Null
               ELSE /\ currentJob' = Head(queue)
                    /\ queue' = Tail(queue)
                    /\ jobs'[Head(queue)].status = "processing"
                    /\ currentProcess' \in {Null, Head(queue)}]_vars

\* A process has closed and the job that was waiting behind it runs.
C7_Witness ==
  /\ \E j \in Refs : jobs[j].status \in Terminal /\ j \notin Live
  /\ currentJob # Null /\ currentProcess = currentJob
  /\ Len(started) >= 2

\* A job that cancelJob took out: the running job marked 'cancelled', or a
\* pending job filtered out of the list.
WasCancelled(r) ==
  \/ jobs[r].status = "cancelled"
  \/ jobs[r].status = "pending" /\ r \notin Range(queue)

\* C8: if every spawned process eventually closes, every job that has been
\* appended and is never cancelled eventually becomes 'completed' or 'failed'
\* (having been 'processing' on the way, by C4).
C8_EveryJobFinishes ==
  \A r \in 1..MaxJobs :
    [](r \in Refs =>
         <>(r \in Refs /\ (jobs[r].status \in {"completed", "failed"}
                            \/ WasCancelled(r))))

\* C9: cancelJob(id) with the id of a pending job removes exactly one job, one
\* with that id, from the pending list, keeps the others in order and leaves
\* the current job, its fields and its process alone.
C9_CancelPendingRemovesOne ==
  [][\A id \in CancelIds :
       (cancelJob(id) /\ \E k \in 1..Len(queue) : jobs[queue[k]].id = id)
         => /\ \E k \in 1..Len(queue) :
                 jobs[queue[k]].id = id /\ queue' = RemoveAt(queue, k)
            /\ currentJob' = currentJob
            /\ currentProcess' = currentProcess
            /\ jobs' = jobs
            /\ procs' = procs
            /\ killed' = killed]_vars

\* C10: from a cancelJob call with the current job's id until that job's
\* close event is handled, getQueueState shows that job as the current job
\* with status 'cancelled'.
C10_CancelledShownUntilClose ==
  \A j \in cancelAsked :
    (j \in Live \/ currentJob = j)
      => /\ getQueueState.currentJob = j
         /\ jobs[getQueueState.currentJob].status = "cancelled"

\* A cancelJob(jobId) step.  The frame of cancelJob is repeated in front: it
\* is the cheapest conjunct to evaluate and rules out most other steps.
CancelStep(jobId) ==
  /\ UNCHANGED <<statInFlight, adding, clock, delivered,
                 statFailed, spawnFailed>>
  /\ cancelJob(jobId)

\* A pending job that is no longer in the pending list: jobs enter the list
\* when they are created and leave it pending only through cancelJob's filter.
Removed(r) == jobs[r].status = "pending" /\ r \notin Range(queue)

\* C11: cancelJob's filter takes every pending job with the given id out of
\* the list without starting it, and a job taken out stays out: it never
\* becomes the current job, never gets status 'processing' and no process is
\* ever launched for it.
C11_RemovedNeverStarts ==
  /\ [][\A id \in CancelIds :
          \A k \in 1..Len(queue) :
            LET r == queue[k]
            IN (jobs[r].id = id /\ ~CancelHitsCurrent(St, id) /\ CancelStep(id))
                 => /\ jobs'[r].status = "pending"
                    /\ r \notin Range(queue')
                    /\ r \notin DOMAIN procs'
                    /\ currentJob' # r]_vars
  /\ [](\A r \in Refs :
          Removed(r) => r \notin Live /\ r \notin Range(started)
                        /\ currentJob # r)
  /\ [][\A r \in Refs : Removed(r) => Removed(r)']_vars

\* A job was taken out of the list, and a job admitted after it has been
\* started and has finished since.
C11_Witness ==
  \E r \in Refs :
    /\ Removed(r)
    /\ \E k \in 1..Len(started) :
         started[k] > r /\ jobs[started[k]].status \in Terminal

\* No job the manager holds has the given id.
NoMatch(id) ==
  /\ currentJob = Null \/ jobs[currentJob].id # id
  /\ \A k \in 1..Len(queue) : jobs[queue[k]].id # id

\* C12: cancelJob with an id that neither the current job nor a pending job
\* has changes no job, not the pending list, not the slot and not the
\* process, and asks for no kill: every step either leaves all of these as
\* they were or is not such a call.
C12_CancelUnknownIsNoOp ==
  [][\/ /\ queue' = queue
        /\ jobs' = jobs
        /\ currentJob' = currentJob
        /\ currentProcess' = currentProcess
        /\ procs' = procs
        /\ killed' = killed
     \/ \A id \in CancelIds : ~(NoMatch(id) /\ CancelStep(id))]_vars

\* The state right after such a call: one snapshot was published, a job runs
\* with its process, nothing was delivered, killed or removed.
C12_Witness ==
  /\ emits = 1
  /\ currentJob # Null /\ Live = {currentJob}
  /\ jobs[currentJob].status = "processing"
  /\ queue = <<>>
  /\ delivered = 0 /\ statInFlight = {}
  /\ killed = {} /\ cancelAsked = {}
  /\ \A j \in Refs : jobs[j].status # "pending"

\* C13: no two jobs admitted by the manager have the same id.
C13_IdsUnique ==
  \A a, b \in Refs : a # b => jobs[a].id # jobs[b].id

\* C14: no job the manager holds came from a submit request without a file
\* path or with an absent or empty audio-stream selection.
C14_RejectedNeverAdmitted ==
  \A j \in Refs :
    /\ jobs[j].filePath # "missing"
    /\ jobs[j].audioStreams \notin {"missing", "empty"}

\* C15: a rejected fs.stat ends addJob with no job created (no id assigned),
\* the pending list, the slot and the processes as they were, no snapshot
\* published and no job taken by the scheduler.
C15_StatFailureChangesNothing ==
  [][AddJobStatFails
       => /\ jobs' = jobs
          /\ queue' = queue
          /\ currentJob' = currentJob
          /\ currentProcess' = currentProcess
          /\ procs' = procs
          /\ started' = started
          /\ emits' = 0]_vars

\* An addJob call has failed while a job runs and another waits.
C15_Witness ==
  /\ statFailed > 0
  /\ currentJob # Null /\ jobs[currentJob].status = "processing"
  /\ queue # <<>>

\* C16: while a job is 'processing' its progress is within 0..100 and no step
\* lowers it.
C16_ProgressMonotone ==
  [][\A j \in Refs :
       (jobs[j].status = "processing" /\ jobs'[j].status = "processing")
         => /\ jobs'[j].progress \in 0..100
            /\ jobs'[j].progress >= jobs[j].progress]_vars

\* HH:MM:SS.ff in whole seconds.
HMS(m) == (m[1] * 60 + m[2]) * 60 + m[3]

\* C17: a chunk with an elapsed-time marker e, handled when a total duration
\* t > 0 is known, leaves progress g = min(100, round(100 * e / t)): g = 100
\* exactly when 100 * e / t >= 99.5, and otherwise g is the integer nearest to
\* 100 * e / t, halves up.  Duration 01:00:00.00 then time=00:30:00.00 gives 50.
C17_ProgressFormula ==
  [][\A p \in Live, c \in DetailChunks :
       (StderrHandler(p, c) /\ c.time # NoMarker
          /\ procs'[p].totalDuration > 0)
         => LET e == HMS(c.time)
                t == procs'[p].totalDuration
                g == jobs'[p].progress
            IN /\ g \in 0..100
               /\ g = 100 <=> 200 * e >= 199 * t
               /\ g < 100 => /\ 2 * (100 * e - g * t) < t
                              /\ 2 * (g * t - 100 * e) <= t
               /\ (c.duration # NoMarker /\ procs[p].totalDuration = 0)
                     => t = HMS(c.duration)
               /\ (t = 3600 /\ e = 1800) => g = 50]_vars

\* C18: the stderr handler publishes one snapshot when it changes the job's
\* progress and none otherwise; a chunk with no elapsed-time marker, or
\* handled while the total duration is 0, or whose computed progress is the
\* current value, changes no job and publishes nothing; no chunk changes the
\* pending list or the slot.
C18_SnapshotIffProgressChanged ==
  [][\A p \in Live, c \in DetailChunks :
       StderrHandler(p, c)
         => /\ emits' = IF jobs'[p].progress # jobs[p].progress THEN 1 ELSE 0
            /\ (\/ c.time = NoMarker
                \/ procs'[p].totalDuration = 0
                \/ jobs'[p].progress = jobs[p].progress)
                 => (jobs' = jobs /\ emits' = 0)
            /\ \A j \in Refs : j # p => jobs'[j] = jobs[j]
            /\ jobs'[p] = [jobs[p] EXCEPT !.progress = jobs'[p].progress]
            /\ queue' = queue /\ currentJob' = currentJob
            /\ currentProcess' = currentProcess]_vars

\* Two chunks were handled by the only job's process, the last one without
\* publishing: of the two, one moved progress from 0 to 50 and one left it.
C18_Witness ==
  /\ Len(jobs) = 1 /\ adding = 0 /\ statFailed = 0 /\ clock = 0
  /\ delivered = 2 /\ emits = 0
  /\ \E p \in Live : procs[p].totalDuration = 3600 /\ jobs[p].progress = 50

\* The job is in the result of getQueueState: it is the current job or one of
\* the pending list.
Shown(j) ==
  getQueueState.currentJob = j \/ j \in Range(getQueueState.queue)

\* C19: when a close with a non-zero code fails a 'processing' job, the state
\* the handler leaves (the one its snapshots are taken from and the next poll
\* reads) shows that job with status 'failed' and its error message.
C19_FailureShown ==
  [][\A p \in Live, c \in ExitCodes :
       (Close(p, c) /\ jobs[p].status = "processing" /\ c # 0)
         => /\ Shown(p)'
            /\ jobs'[p].status = "failed"
            /\ jobs'[p].error # <<>>]_vars

\* What holds instead: a job that is 'failed' or 'completed' is in no result
\* of getQueueState.
FinishedNeverShown ==
  \A j \in Refs : jobs[j].status \in {"failed", "completed"} => ~Shown(j)

\* C20: the pending list holds each job once, all of them 'pending' and none
\* of them the current job; in every step a job of the list either stays in
\* it at the same or a lower index, or becomes the current job with status
\* 'processing', or is dropped by a cancelJob with its id; and two jobs that
\* stay keep their order.
C20_PendingOrderKept ==
  /\ [](\A a, b \in 1..Len(queue) : a # b => queue[a] # queue[b])
  /\ [](\A k \in 1..Len(queue) :
          jobs[queue[k]].status = "pending" /\ queue[k] # currentJob)
  /\ [][\A k \in 1..Len(queue) :
          LET r == queue[k]
          IN \/ \E k2 \in 1..Len(queue') : k2 <= k /\ queue'[k2] = r
             \/ currentJob' = r /\ jobs'[r].status = "processing"
             \/ \E id \in CancelIds : cancelJob(id) /\ jobs[r].id = id]_vars
  /\ [][\A a, b \in 1..Len(queue) :
          a < b =>
            \A a2, b2 \in 1..Len(queue') :
              (queue'[a2] = queue[a] /\ queue'[b2] = queue[b]) => a2 < b2]_vars

\* A close handler has just taken the second job from a list of two: the third
\* job moved from index 2 to index 1.
C20_Witness ==
  /\ started = <<1, 2>> /\ currentJob = 2
  /\ queue = <<3>> /\ emits = 2

\* ------------------------------------------------------------------- C21
\* What every snapshot must look like: the jobs of the pending list are
\* 'pending' and none of them is the current job, and the current job, if
\* there is one, is 'processing' or 'cancelled'.
SnapshotWellFormed(sn) ==
  /\ \A i \in 1..Len(sn.queue) :
       /\ sn.jobs[sn.queue[i]].status = "pending"
       /\ sn.queue[i] # sn.currentJob
  /\ sn.currentJob # Null =>
       sn.jobs[sn.currentJob].status \in {"processing", "cancelled"}

\* C21: every snapshot of getQueueState, the ones a handler emits while it
\* runs and the one a poll reads between handlers, has only 'pending' jobs in
\* its pending list, none of them the current job, and a current job that is
\* 'processing' or 'cancelled'.
C21_SnapshotWellFormed ==
  /\ SnapshotWellFormed(Snapshot(St))
  /\ \A k \in 1..Len(published) : SnapshotWellFormed(published[k])

\* cancelJob has emitted a snapshot whose current job is 'cancelled' while
\* another job waits in the pending list.
C21_Witness ==
  \E k \in 1..Len(published) :
    /\ published[k].currentJob # Null
    /\ published[k].jobs[published[k].currentJob].status = "cancelled"
    /\ published[k].queue # <<>>

\* ------------------------------------------------------------------- C22
CropDone == cropRun.status = "done"
SamplesWith(v) == {i \in DOMAIN cropRun.cropResults : cropRun.cropResults[i] = v}

\* C22: when detectCrop returns, a rectangle that at least two of the three
\* samples reported is the result, and when no sample reported a rectangle
\* the result is 'No crop detected'.
C22_MajorityWins ==
  CropDone =>
    /\ \A r \in CropRects : Cardinality(SamplesWith(r)) >= 2 => cropRun.result = r
    /\ (\A r \in CropRects : SamplesWith(r) = {}) => cropRun.result = NoCropDetected

\* The first sample disagrees with the two that follow, which report the
\* same rectangle.
C22_Witness ==
  /\ CropDone
  /\ cropRun.cropResults[1] # cropRun.cropResults[2]
  /\ cropRun.cropResults[2] = cropRun.cropResults[3]
  /\ cropRun.cropResults[2] \in CropRects

\* ------------------------------------------------------------------- C23
\* The values that are most frequent among the samples.
MostFrequent ==
  {v \in Range(cropRun.cropResults) :
     \A w \in Range(cropRun.cropResults) :
       Cardinality(SamplesWith(v)) >= Cardinality(SamplesWith(w))}
FirstSeenOf(vs) ==
  cropRun.cropResults[CHOOSE i \in DOMAIN cropRun.cropResults :
                        /\ cropRun.cropResults[i] \in vs
                        /\ \A k \in 1..(i - 1) : cropRun.cropResults[k] \notin vs]

\* C23: when several values are tied for most frequent, detectCrop returns
\* the one of them that was observed first.
C23_TieGoesToFirstSeen ==
  (CropDone /\ Cardinality(MostFrequent) > 1)
    => cropRun.result = FirstSeenOf(MostFrequent)

\* ------------------------------------------------------------------- C24
\* C24: a sample whose probe errors does not make detectCrop fail: the
\* sample counts as 'No crop detected', the other samples are taken and the
\* call returns the vote, so no call ends rejected.
C24_SampleErrorTolerated == cropRun.status # "failed"

\* ------------------------------------------------------------------- C25
Derived == plan.stage = "derived"
KindsOf(filters) == [i \in DOMAIN filters |-> filters[i].kind]

\* C25: for a field order that is present and not 'progressive' the derived
\* filter list begins with yadif and the reason is the field order in upper
\* case ('tt' gives 'TT', 'bt' gives 'BT', 'unknown' gives 'UNKNOWN'); for
\* 'progressive' or no field order there is no yadif and no reason.
C25_DeinterlaceFirst ==
  Derived =>
    /\ plan.fieldOrder = "tt" =>
         /\ plan.filters # <<>> /\ plan.filters[1] = Yadif
         /\ plan.deinterlaceReason = "TT"
    /\ plan.fieldOrder = "bt" =>
         /\ plan.filters # <<>> /\ plan.filters[1] = Yadif
         /\ plan.deinterlaceReason = "BT"
    /\ plan.fieldOrder = "unknown" =>
         /\ plan.filters # <<>> /\ plan.filters[1] = Yadif
         /\ plan.deinterlaceReason = "UNKNOWN"
    /\ plan.fieldOrder \in {"", "progressive"} =>
         /\ "yadif" \notin Range(KindsOf(plan.filters))
         /\ plan.deinterlaceReason = ""

\* An interlaced stream with a detected crop, derived by the current route.
C25_Witness ==
  /\ Derived
  /\ plan.by = "api"
  /\ plan.fieldOrder = "tt"
  /\ Len(plan.filters) >= 2

\* ------------------------------------------------------------------- C26
AspectKinds == {"scale", "setdar"}
Built == plan.stage \in {"derived", "encoding"}

\* C26: in every filter chain that is built, for the screenshots and for the
\* encode, yadif comes before the crop and the crop before the scale or
\* setdar filter.
C26_FilterOrder ==
  Built =>
    \A i, j \in DOMAIN plan.filters :
      \/ i < j
      \/ ~ \/ plan.filters[i].kind = "yadif" /\ plan.filters[j].kind = "crop"
           \/ plan.filters[i].kind = "crop" /\ plan.filters[j].kind \in AspectKinds
           \/ plan.filters[i].kind = "yadif" /\ plan.filters[j].kind \in AspectKinds

\* ------------------------------------------------------------------- C27
\* C27: a sample aspect ratio num:den other than 1:1 gives a scale filter and
\* a recorded correction with target width round(width * num / den), the
\* height as it was and the sar string; 10:11 at width 720 gives 655.  For
\* 1:1 there is neither the filter nor the record.
C27_SarCorrection ==
  Derived =>
    /\ plan.sar \notin {"", "1:1"} =>
         /\ "scale" \in Range(KindsOf(plan.filters))
         /\ plan.aspectRatioDetails # <<>>
         /\ LET d == plan.aspectRatioDetails[1]
                nd == SplitNumbers(plan.sar)
            IN /\ d.sar = plan.sar
               /\ d.targetResolution[1] = Round(plan.size[1] * nd[1], nd[2])
               /\ d.targetResolution[2] = plan.size[2]
               /\ (plan.sar = "10:11" /\ plan.size[1] = 720)
                    => d.targetResolution[1] = 655
    /\ plan.sar = "1:1" =>
         /\ ScaleBySar \notin Range(plan.filters)
         /\ plan.aspectRatioDetails = <<>>

\* ------------------------------------------------------------------- C28
ScalesOf(filters) == {i \in DOMAIN filters : filters[i].kind = "scale"}

\* C28: the current route appends, for an override N:D other than 'None',
\* exactly one scale filter W x round(W * D / N), W being the width of the
\* detected crop or else of the stream; for 'None' or no override it appends
\* no scale filter.
C28_OverrideScale ==
  (Derived /\ plan.by = "api") =>
    LET W == IF plan.crop \in CropRects THEN plan.crop[1] ELSE plan.size[1]
    IN /\ plan.aspectRatio \in {"", "None"} => ScalesOf(plan.filters) = {}
       /\ plan.aspectRatio \notin {"", "None"} =>
            LET nd == SplitNumbers(plan.aspectRatio)
            IN /\ Cardinality(ScalesOf(plan.filters)) = 1
               /\ plan.filters[Len(plan.filters)] =
                    ScaleFilter(W, (2 * W * nd[2] + nd[1]) \div (2 * nd[1]))

\* Width 718 with override 4:3 and no crop: 538.5 rounds to 539; and a crop
\* of width 704 with override 1.85:1: 380.54 rounds to 381.
C28_Witness ==
  /\ Derived
  /\ plan.by = "api"
  /\ \/ /\ plan.size[1] = 718 /\ plan.crop = NoCropDetected
        /\ plan.aspectRatio = "4:3"
        /\ ScaleFilter(718, 539) \in Range(plan.filters)
     \/ /\ plan.crop \in CropRects
        /\ plan.crop[1] = 704
        /\ plan.aspectRatio = "1.85:1"
        /\ ScaleFilter(704, 381) \in Range(plan.filters)

\* ------------------------------------------------------------------- C29
\* The numbers of the claim are exact: a number n/d in lowest terms.
RECURSIVE GCD(_, _)
GCD(a, b) == IF b = 0 THEN a ELSE GCD(b, a % b)
Frac(n, d) == <<n \div GCD(n, d), d \div GCD(n, d)>>
Less(x, y) == x[1] * y[2] < y[1] * x[2]

\* |x - y|
AbsDiff(x, y) ==
  LET a == x[1] * y[2]
      b == y[1] * x[2]
  IN Frac(IF a > b THEN a - b ELSE b - a, x[2] * y[2])

\* The ratio an option stands for.
ExactRatio(option) ==
  LET nd == SplitNumbers(option) IN Frac(nd[1], nd[2])

\* The options in reach of a display aspect ratio: those whose ratio differs
\* from it by less than 0.1, and among them the ones no other option beats.
WithinTolerance(dar) ==
  {o \in Range(RatioOptions) : Less(AbsDiff(dar, ExactRatio(o)), <<1, 10>>)}
Closest(dar) ==
  {o \in Range(RatioOptions) :
     \A q \in Range(RatioOptions) :
       ~Less(AbsDiff(dar, ExactRatio(q)), AbsDiff(dar, ExactRatio(o)))}

\* C29: the best guess is the option whose ratio is closest to (width /
\* height after the crop) * SAR when that difference is below 0.1, and 'None'
\* otherwise, also when the width or the height is missing.
C29_BestGuess ==
  page.stage = "guessed" =>
    LET v == page.videoStream
        g == page.bestGuess
        w == IF v.cropDimensions # <<>> THEN v.cropDimensions[1].w ELSE v.width
        h == IF v.cropDimensions # <<>> THEN v.cropDimensions[1].h ELSE v.height
        sar == IF v.sample_aspect_ratio \in {"", "0:1"} THEN <<1, 1>>
               ELSE SplitNumbers(v.sample_aspect_ratio)
        dar == Frac(w * sar[1], h * sar[2])
    IN IF v.width = 0 \/ v.height = 0 THEN g = "None"
       ELSE IF Closest(dar) \cap WithinTolerance(dar) = {} THEN g = "None"
       ELSE g \in Closest(dar) \cap WithinTolerance(dar)

\* ------------------------------------------------------------------- C30
\* C30: while a choice of the user stands for the file that is shown, the
\* ar of the URL, which the selector shows, is that choice: no inspection
\* response puts a guess in its place.
C30_GuessKeepsChoice ==
  (page.stage # "none" /\ page.chosen # "") => page.to.ar = page.chosen

\* ------------------------------------------------------------------- C31
\* C31: a request for a file whose duration does not parse as a number is
\* answered with an error, and no crop probe and no screenshot is started for
\* it.
C31_NoDurationNoProbes ==
  (request.stage # "none" /\ Truthy(request.filePath)
     /\ ParseFloat(request.durationText) = NaN) =>
    /\ request.cropProbes = 0
    /\ request.shots = 0
    /\ request.stage = "answered" => request.response = 500

\* ------------------------------------------------------------------- C32
\* C32: once a job has left 'processing' (cancelled, or its close handler has
\* run), a sampler stat that resolves for it, one in flight at that moment
\* included, neither writes the job's currentFileSize nor publishes.
C32_SamplerStopsWithJob ==
  [][\A p \in statInFlight :
       (jobs[p].status # "processing" /\ p \notin statInFlight') =>
         /\ jobs'[p].currentFileSize = jobs[p].currentFileSize
         /\ emits' = 0]_vars

\* ------------------------------------------------------------------- C33
\* C33: a job whose status is completed, failed or cancelled is written by no
\* later step: status, startTime, progress, error, outputPath and
\* currentFileSize stay as they are.
WrittenFields == {"status", "startTime", "progress", "error", "outputPath",
                  "currentFileSize"}

C33_TerminalJobsImmutable ==
  [][\A j \in Refs :
       jobs[j].status \in Terminal =>
         \A f \in WrittenFields : jobs'[j][f] = jobs[j][f]]_vars

\* ------------------------------------------------------------------- C34
\* C34: a step that changes the pending list, the current-job slot or a field
\* of a job ends with a published snapshot that shows the state it leaves;
\* and every cancelJob call publishes, also for an unknown id.
Mutated == jobs' # jobs \/ queue' # queue \/ currentJob' # currentJob

C34_MutationsPublished ==
  [][/\ Mutated =>
          /\ emits' >= 1
          /\ published'[emits'] = [queue |-> queue', currentJob |-> currentJob',
                                   jobs |-> jobs']
     /\ \A id \in CancelIds : CancelStep(id) => emits' >= 1]_vars

\* ------------------------------------------------------------------- C35
\* C35: what a job was admitted with (filePath, the codec parameters,
\* aspectRatio, crop, deinterlace, audioStreams, outputFilename,
\* originalFileSize) and its id are written by no step after addJob has
\* appended the job.
InputFields == {"id", "filePath", "videoCodec", "videoPreset", "videoCrf",
                "audioCodec", "audioBitrate", "aspectRatio", "crop",
                "deinterlace", "audioStreams", "outputFilename",
                "originalFileSize"}

\* The same fields of one job, as one value.
InputsOf(job) ==
  <<job.id, job.filePath, job.videoCodec, job.videoPreset, job.videoCrf,
    job.audioCodec, job.audioBitrate, job.aspectRatio, job.crop,
    job.deinterlace, job.audioStreams, job.outputFilename,
    job.originalFileSize>>

C35_InputsNeverWritten ==
  [][jobs' # jobs =>
       \A j \in Refs : InputsOf(jobs'[j]) = InputsOf(jobs[j])]_vars

\* A job that has been started, sampled, cancelled and closed, next to one
\* that has run to its end, both with what they were admitted with.
C35_Witness ==
  \E a, b \in Refs :
    /\ jobs[a].status = "cancelled" /\ a \notin Live
    /\ jobs[a].currentFileSize \in FileSizes
    /\ jobs[b].status = "completed"
    /\ \A j \in {a, b} : \A f \in InputFields \ {"id", "audioStreams"} :
         jobs[j][f] = NewJob("array", 0)[f]

\* ------------------------------------------------------------------- C36
\* C36: when the running job has been cancelled and its process has exited,
\* the partial output file that job wrote is eventually removed.
C36_PartialOutputRemoved ==
  \A r \in 1..MaxJobs :
    (r \in Refs /\ jobs[r].status = "cancelled" /\ r \notin Live
       /\ r \in files) ~> (r \notin files)

\* ------------------------------------------------------------------- C37
\* C37: when building the arguments or launching the process throws after
\* the job was dequeued, the job is marked 'failed' with an error message and
\* the slot is cleared, so that the slot never holds a job without a live
\* process.
C37_LaunchFailureHandled ==
  /\ currentJob # Null => currentJob \in Live
  /\ \A j \in Range(started) :
       LaunchThrows(jobs[j]) =>
         jobs[j].status = "failed" /\ jobs[j].error # <<>>

\* ------------------------------------------------------------------- C38
\* C38: a snapshot is a point-in-time value: what is read through it later
\* (the pending list, the fields of its jobs) is what was read when it was
\* obtained, whatever addJob, processQueue, progress, sampler and close steps
\* have run since.
C38_SnapshotIsAValue ==
  held # NoSnapshot => SeenThrough(held) = SeenThen(held)

=============================================================================
